---- MODULE Spec2Model ----
(***************************************************************************)
(* AuraProtocol risk engine (main.go): per-asset consensus, the            *)
(* three-reading momentum predictor, the 5% deviation guard (RWA Guard)    *)
(* and the chain-write step, as executed by onCronTriggerWithMockData.     *)
(*                                                                         *)
(* float64 quantities are carried as exact fixed-point integers:           *)
(*   prices       in ticks of $0.005 (so the mean of two cent prices is    *)
(*                exact),                                                  *)
(*   percentages  in units of 0.01 % (0.2 % = 20, 5 % = 500),              *)
(*   risk scores  in tenths (10.0 = 100).                                  *)
(***************************************************************************)
EXTENDS Integers, Sequences, FiniteSets, TLC

VARIABLES
    config,             \* *Config handed to the handler (thresholds)
    previousGoldPrice,  \* package-level var, main.go:27
    previousMsftPrice,  \* package-level var, main.go:28
    executionCount,     \* package-level var, main.go:29
    varianceHistory,    \* package-level var, main.go:32
    result,             \* the ExecutionResult assembled by the last cycle
    probe,              \* what the last cycle did (guard, momentum, report calls)
    readings,           \* every cross-asset variance reading so far, in arrival order
    instance,           \* the monitored pair the last trigger was fired for
    solo,               \* per monitored pair: the retained state it would own alone
    soloResult,         \* per monitored pair: the result it would obtain alone
    replay,             \* the recorded run and the position of its replay
    aggregation,        \* the last call of computeConsensus: its argument and its result
    vault,              \* storage of the AuraVault contract
    blockTimestamp,     \* block.timestamp of the last mined transaction, in seconds
    tx,                 \* the last transaction sent to the vault and its outcome
    agent,              \* the last run of the vault agent's risk calculation
    journal,            \* per cycle of a journalled run: the anchor price and the verdict
    shield,             \* storage of the AuraShield contract
    shieldTx,           \* the last call mined on the AuraShield contract
    invocation,         \* the trigger invocation of the mock handler in progress
    strategy,           \* the last run of the vault agent's executeStrategy
    cron                \* the last run of the vault agent's onCronTrigger

vars == <<config, previousGoldPrice, previousMsftPrice, executionCount,
          varianceHistory, result, probe, readings, instance, solo, soloResult,
          replay, aggregation, vault, blockTimestamp, tx, agent, journal,
          shield, shieldTx, invocation, strategy, cron>>

\* what the risk engine's handler never touches
vaultVars == <<vault, blockTimestamp, tx>>

agentVars == <<agent>>

journalVars == <<journal>>

shieldVars == <<shield, shieldTx>>

runVars == <<invocation, strategy, cron>>

\* what a transaction sent to the vault never touches
engineVars == <<config, previousGoldPrice, previousMsftPrice, executionCount,
                varianceHistory, result, probe, readings, instance, solo, soloResult,
                replay, aggregation>>

----------------------------------------------------------------------------
(* Bounds of the exploration *)

\* cycles run on fetched observations
MaxCycles == 3

\* cycles run on a feed of variance readings alone
MaxReadings == 4

\* cycles of the three-stage demonstration
MaxStages == 5

\* cycles interleaved between two monitored pairs
MaxInterleaved == 4

\* cycles of a recorded run
MaxReplayed == 3

\* cycles run on observation lists that may be empty
MaxSparse == 3

\* cycles of a journalled run
MaxJournal == 4

\* trigger invocations of the mock handler
MaxTriggers == 3

\* calls mined on the AuraShield contract
MaxShieldCalls == 4

\* observations of one symbol in one cycle
MaxObservations == 4

\* transactions sent to the vault
MaxTransactions == 3

----------------------------------------------------------------------------
(* Program constants *)

MAX_DEVIANCE == 500

PREDICTIVE_RISK_BONUS == 30

AccelerationThreshold == 50

BumpCeiling == 70

VolatilityBump == 20

HaltScore == 100

HistoryDepth == 3

\* float64 NaN (0/0); no variance is ever negative, so -1 is free
NaN == -1

\* dollars and cents to ticks of $0.005
Usd(d, c) == (d * 100 + c) * 2

Abs(x) == IF x < 0 THEN -x ELSE x

----------------------------------------------------------------------------
(* computeConsensus *)

RECURSIVE Insert(_, _)
Insert(s, x) ==
    IF s = <<>> THEN <<x>>
    ELSE IF x < Head(s) THEN <<x>> \o s
    ELSE <<Head(s)>> \o Insert(Tail(s), x)

\* the list left in the order it arrived
SortAsc_Unsorted(s) == s

RECURSIVE SortAsc(_)
\* sort.Slice(prices, less by Price)
SortAsc(s) == IF s = <<>> THEN <<>> ELSE Insert(SortAsc(Tail(s)), Head(s))

RECURSIVE SumSeq(_)
SumSeq(s) == IF s = <<>> THEN 0 ELSE Head(s) + SumSeq(Tail(s))

RECURSIVE SqrtBetween(_, _, _)
SqrtBetween(lo, hi, x) ==
    IF lo >= hi THEN lo
    ELSE LET mid == (lo + hi + 1) \div 2
         IN  IF mid * mid <= x THEN SqrtBetween(mid, hi, x)
             ELSE SqrtBetween(lo, mid - 1, x)

\* math.Sqrt on the fixed-point grid (floor)
Sqrt(x) == IF x = 0 THEN 0 ELSE SqrtBetween(1, 46340, x)

\* the median taking the upper of the two central values of an even list
Median_UpperMiddle(sorted) == sorted[Len(sorted) \div 2 + 1]

Median(sorted) ==
    LET n == Len(sorted)
    IN  IF n % 2 = 0
        THEN (sorted[n \div 2] + sorted[n \div 2 + 1]) \div 2
        ELSE sorted[n \div 2 + 1]

\* the spread measured from zero instead of from the mean
VariancePercent_FromZero(prices) ==
    LET n == Len(prices)
        S == SumSeq(prices)
        D == SumSeq([i \in 1..n |-> (n * prices[i]) * (n * prices[i])]) \div n
    IN  IF S = 0 THEN NaN
        ELSE (Sqrt(D) * 10000) \div S

\* (stdDev / mean) * 100 in units of 0.01 %.  With S the sum and
\* D = n * sum((p - mean)^2) * n = sum((n*p - S)^2) / n, stdDev = sqrt(D)/n and
\* mean = S/n, so the quotient is 100 * sqrt(D) / S.
VariancePercent(prices) ==
    LET n == Len(prices)
        S == SumSeq(prices)
        D == SumSeq([i \in 1..n |-> (n * prices[i] - S) * (n * prices[i] - S)]) \div n
    IN  IF S = 0 THEN NaN
        ELSE (Sqrt(D) * 10000) \div S

\* every comparison with NaN is false
FloatGT(a, b) == a # NaN /\ b # NaN /\ a > b

\* the tiers with >= in place of >
RiskScoreOf_Inclusive(variancePercent, cfg) ==
    IF variancePercent # NaN /\ variancePercent >= cfg.ExtremeVolatilityThreshold THEN 100
    ELSE IF variancePercent # NaN /\ variancePercent >= cfg.HighVolatilityThreshold THEN 70
    ELSE IF variancePercent # NaN /\ variancePercent >= cfg.MaxVariancePercent THEN 40
    ELSE 0

RiskScoreOf(variancePercent, cfg) ==
    IF FloatGT(variancePercent, cfg.ExtremeVolatilityThreshold) THEN 100
    ELSE IF FloatGT(variancePercent, cfg.HighVolatilityThreshold) THEN 70
    ELSE IF FloatGT(variancePercent, cfg.MaxVariancePercent) THEN 40
    ELSE 0

\* the empty list sent through the arithmetic: 0/0 for the variance
computeConsensus_EmptyThroughArithmetic(prices, cfg) ==
    IF Len(prices) = 0
    THEN [MedianPrice |-> 0, Variance |-> NaN, RiskScore |-> 0]
    ELSE LET sorted == SortAsc(prices)
             v      == VariancePercent(sorted)
         IN  [MedianPrice |-> Median(sorted),
              Variance    |-> v,
              RiskScore   |-> RiskScoreOf(v, cfg)]

computeConsensus(prices, cfg) ==
    IF Len(prices) = 0
    THEN [MedianPrice |-> 0, Variance |-> 0, RiskScore |-> 0]
    ELSE LET sorted == SortAsc(prices)
             v      == VariancePercent(sorted)
         IN  [MedianPrice |-> Median(sorted),
              Variance    |-> v,
              RiskScore   |-> RiskScoreOf(v, cfg)]

----------------------------------------------------------------------------
(* Layer 3: predictive momentum engine *)

\* the trim keeping the three oldest entries instead of the three newest
TrimHistory_KeepOldest(h) ==
    IF Len(h) > HistoryDepth THEN SubSeq(h, 1, HistoryDepth) ELSE h

\* varianceHistory = varianceHistory[len(varianceHistory)-3:]
TrimHistory(h) ==
    IF Len(h) > HistoryDepth
    THEN SubSeq(h, Len(h) - HistoryDepth + 1, Len(h))
    ELSE h

\* the second difference of the last three readings
Acceleration(h) ==
    LET n               == Len(h)
        currentVariance == h[n]
        previousVariance == h[n - 1]
        oldestVariance  == h[n - 2]
        varianceGrowth  == currentVariance - previousVariance
        previousGrowth  == previousVariance - oldestVariance
    IN  varianceGrowth - previousGrowth

\* whether the acceleration branch is entered: len >= 2 and, inside, len >= 3
AccelerationComputed(h) == Len(h) >= 2 /\ Len(h) >= 3

\* the engine with >= in place of >
MomentumEngine_Inclusive(h, systemRiskScore) ==
    IF AccelerationComputed(h) /\ Acceleration(h) >= AccelerationThreshold
    THEN [systemRiskScore |-> systemRiskScore + PREDICTIVE_RISK_BONUS,
          marketMomentum  |-> "Unstable"]
    ELSE [systemRiskScore |-> systemRiskScore,
          marketMomentum  |-> "Stable"]

\* the engine predicting on the growth between two readings already
MomentumEngine_OnGrowth(h, systemRiskScore) ==
    IF Len(h) >= 2 /\ h[Len(h)] - h[Len(h) - 1] > AccelerationThreshold
    THEN [systemRiskScore |-> systemRiskScore + PREDICTIVE_RISK_BONUS,
          marketMomentum  |-> "Unstable"]
    ELSE [systemRiskScore |-> systemRiskScore,
          marketMomentum  |-> "Stable"]

\* if acceleration > 0.5 { systemRiskScore += PREDICTIVE_RISK_BONUS; marketMomentum = "Unstable" }
MomentumEngine(h, systemRiskScore) ==
    IF AccelerationComputed(h) /\ Acceleration(h) > AccelerationThreshold
    THEN [systemRiskScore |-> systemRiskScore + PREDICTIVE_RISK_BONUS,
          marketMomentum  |-> "Unstable"]
    ELSE [systemRiskScore |-> systemRiskScore,
          marketMomentum  |-> "Stable"]

----------------------------------------------------------------------------
(* Layer 2: RWA guard *)

\* goldDeviation > MAX_DEVIANCE, with goldDeviation = |price - previous| / previous
\* (previous > 0: both sides multiplied by previous * 10000)
DeviationExceeds(previous, price) ==
    Abs(price - previous) * 10000 > MAX_DEVIANCE * previous

\* the guard without the baseline test on the previous price
GuardTriggers_NoBaseline(previous, price) ==
    Abs(price - previous) * 10000 > MAX_DEVIANCE * previous

\* the guard with >= in place of >
GuardTriggers_Inclusive(previous, price) ==
    previous # 0 /\ Abs(price - previous) * 10000 >= MAX_DEVIANCE * previous

\* if previousGoldPrice != 0.0 { ... if goldDeviation > MAX_DEVIANCE { ... } }
GuardTriggers(previous, price) ==
    previous # 0 /\ DeviationExceeds(previous, price)

\* goldDeviation*100 as the guard logs it with %.2f, in units of 0.01 %
LoggedDeviation(previous, price) ==
    IF previous = 0 THEN NaN
    ELSE (2 * Abs(price - previous) * 10000 + previous) \div (2 * previous)

\* the deviations computed without the baseline test
GuardDivisions_Unguarded(previousGold, previousMsft) ==
    { [asset |-> "GOLD", byZero |-> previousGold = 0],
      [asset |-> "MSFT", byZero |-> previousMsft = 0] }

\* the divisions of the guard step: goldDeviation and msftDeviation are both
\* computed inside "if previousGoldPrice != 0.0", each by dividing by its
\* asset's previous price; the baseline branch divides by nothing
GuardDivisions(previousGold, previousMsft) ==
    IF previousGold # 0
    THEN { [asset |-> "GOLD", byZero |-> previousGold = 0],
           [asset |-> "MSFT", byZero |-> previousMsft = 0] }
    ELSE {}

\* the verdict of the momentum engine kept through a halt
HaltMomentum_KeepVerdict(triggered, marketMomentum) == marketMomentum

\* result.MarketMomentum = "Critical" in the halting branch
HaltMomentum(triggered, marketMomentum) ==
    IF triggered THEN "Critical" ELSE marketMomentum

\* the baseline recorded once and never advanced
NextBaseline_KeepFirst(previous, price) == IF previous = 0 THEN price ELSE previous

\* the baseline kept at the highest price seen
NextBaseline_HighWater(previous, price) == IF price > previous THEN price ELSE previous

\* the baseline held back in a cycle whose guard triggers
NextBaseline_HoldOnHalt(previous, price) ==
    IF previous # 0 /\ DeviationExceeds(previous, price) THEN previous ELSE price

\* previousGoldPrice = goldPrice (after the guard, whatever its outcome)
NextBaseline(previous, price) == price

\* the chain write repeated once after a failure
ReportCalls_Retry(reportErr) == IF reportErr THEN 2 ELSE 1

\* runtime.GenerateReport is called once in the halting branch, outside any loop
ReportCalls(reportErr) == 1

\* report, reportErr := runtime.GenerateReport(reportReq).Await()
ChainWrite(reportErr) == IF reportErr THEN "TX_FAILED" ELSE "TX_SENT_TO_ARBITRUM"

----------------------------------------------------------------------------
(* Standard volatility check *)

\* the volatility check without its test on CRITICAL_HALT
HighVolatility_IgnoringHalt(crossAssetVariance, cfg, alert) ==
    FloatGT(crossAssetVariance, cfg.HighVolatilityThreshold)

\* the volatility check with >= in place of >
HighVolatility_Inclusive(crossAssetVariance, cfg, alert) ==
    /\ \/ FloatGT(crossAssetVariance, cfg.HighVolatilityThreshold)
       \/ crossAssetVariance = cfg.HighVolatilityThreshold
    /\ alert # "CRITICAL_HALT"

\* if crossAssetVariance > config.HighVolatilityThreshold &&
\*    result.VolatilityWarning != "CRITICAL_HALT"
HighVolatility(crossAssetVariance, cfg, alert) ==
    FloatGT(crossAssetVariance, cfg.HighVolatilityThreshold) /\ alert # "CRITICAL_HALT"

VolatilityCheck(crossAssetVariance, cfg, alert, systemRiskScore) ==
    IF HighVolatility(crossAssetVariance, cfg, alert)
    THEN [alert |-> "High Volatility",
          systemRiskScore |-> IF systemRiskScore < BumpCeiling
                              THEN systemRiskScore + VolatilityBump
                              ELSE systemRiskScore]
    ELSE [alert |-> alert, systemRiskScore |-> systemRiskScore]

----------------------------------------------------------------------------
(* One evaluation cycle: the body of onCronTriggerWithMockData from the     *)
(* consensus computation to the volatility check.  st is the retained      *)
(* state the body reads and writes; the observation lists are what the     *)
(* handler builds from the prices it was given, and the price the guard    *)
(* compares is the one the handler reports as the asset's price (for the   *)
(* one-element lists of the mock stages that is goldPrice itself).         *)

Cycle(st, cfg, goldPrices, msftPrices, artificialVariance, reportErr) ==
    LET goldConsensus == computeConsensus(goldPrices, cfg)
        msftConsensus == computeConsensus(msftPrices, cfg)
        goldPrice     == goldConsensus.MedianPrice
        msftPrice     == msftConsensus.MedianPrice
        crossAssetVariance == artificialVariance
        baseScore     == (goldConsensus.RiskScore + msftConsensus.RiskScore) \div 2
        history       == TrimHistory(Append(st.varianceHistory, crossAssetVariance))
        layer3        == MomentumEngine(history, baseScore)
        triggered     == GuardTriggers(st.previousGoldPrice, goldPrice)
        guardScore    == IF triggered THEN HaltScore ELSE layer3.systemRiskScore
        guardAlert    == IF triggered THEN "CRITICAL_HALT" ELSE "Normal"
        guardMomentum == HaltMomentum(triggered, layer3.marketMomentum)
        onChainStatus == IF triggered THEN ChainWrite(reportErr) ELSE "IDLE"
        final         == VolatilityCheck(crossAssetVariance, cfg, guardAlert, guardScore)
    IN  [state  |-> [previousGoldPrice |-> NextBaseline(st.previousGoldPrice, goldPrice),
                     previousMsftPrice |-> NextBaseline(st.previousMsftPrice, msftPrice),
                     varianceHistory   |-> history],
         result |-> [GoldPrice          |-> goldPrice,
                     MsftPrice          |-> msftPrice,
                     GoldVariance       |-> goldConsensus.Variance,
                     MsftVariance       |-> msftConsensus.Variance,
                     CrossAssetVariance |-> crossAssetVariance,
                     VolatilityWarning  |-> final.alert,
                     SystemRiskScore    |-> final.systemRiskScore,
                     MarketMomentum     |-> guardMomentum,
                     OnChainStatus      |-> onChainStatus],
         probe  |-> [baseScore      |-> baseScore,
                     goldRisk       |-> goldConsensus.RiskScore,
                     msftRisk       |-> msftConsensus.RiskScore,
                     computed       |-> AccelerationComputed(history),
                     acceleration   |-> IF AccelerationComputed(history)
                                        THEN Acceleration(history) ELSE 0,
                     momentum       |-> layer3.marketMomentum,
                     riskBonus      |-> layer3.systemRiskScore - baseScore,
                     previousGold   |-> st.previousGoldPrice,
                     triggered      |-> triggered,
                     goldDeviation  |-> LoggedDeviation(st.previousGoldPrice, goldPrice),
                     divisions      |-> GuardDivisions(st.previousGoldPrice,
                                                       st.previousMsftPrice),
                     reports        |-> IF triggered THEN ReportCalls(reportErr) ELSE 0,
                     reportErr      |-> triggered /\ reportErr,
                     goldObserved   |-> Len(goldPrices),
                     msftObserved   |-> Len(msftPrices),
                     highVolatility |-> HighVolatility(crossAssetVariance, cfg, guardAlert)]]

\* the cycle with either outcome of the chain write, when one is attempted
Outcomes(st, cfg, goldPrices, msftPrices, artificialVariance) ==
    { Cycle(st, cfg, goldPrices, msftPrices, artificialVariance, reportErr) :
        reportErr \in BOOLEAN }

----------------------------------------------------------------------------
(* AuraVault.sol.  uint256 risk scores are carried in units of 5e14, so    *)
(* that 1e18 is 2000 units and (riskScore * 2000) / 1e18 is the number of  *)
(* units itself; times are in seconds.  A transaction that reverts leaves  *)
(* the storage as it was before the call, whatever it wrote on the way.    *)

MAX_SINGLE_MOVEMENT_BPS == 2000

\* 3 hours
ORACLE_STALENESS_THRESHOLD == 10800

\* 1e18, the largest risk score accepted
RiskScale == 2000

ConservativeBPS == 5000

TotalBPS == 10000

\* block.timestamp of the deployment, and the seconds between two blocks
Genesis == 20000

BlockInterval == 12

Deployer == "deployer"

CreExecutor == "creExecutor"

Stranger == "stranger"

Accounts == {Deployer, CreExecutor, Stranger}

\* an account that holds the underlying asset and no role
Investor == "investor"

NoSnapshot ==
    [timestamp |-> 0, riskScore |-> 0, vixValue |-> 0, aiRationale |-> "", action |-> ""]

\* storage after the constructor
Deployed ==
    [latestRisk              |-> NoSnapshot,
     lastRebalanceTime       |-> 0,
     totalRebalances         |-> 0,
     defensiveAllocationBPS  |-> ConservativeBPS,
     aggressiveAllocationBPS |-> ConservativeBPS,
     paused                  |-> FALSE,
     totalAssets             |-> 0,
     shares                  |-> 0,
     roles |-> [DEFAULT_ADMIN_ROLE |-> {Deployer},
                CRE_EXECUTOR_ROLE  |-> {CreExecutor},
                GUARDIAN_ROLE      |-> {Deployer}]]

\* every account holding every role
hasRole_Anyone(v, role, account) == TRUE

hasRole(v, role, account) == account \in v.roles[role]

\* the transaction is undone: the storage is the one before the call
Revert(before, error) == [error |-> error, vault |-> before]

Success(after) == [error |-> "", vault |-> after]

_abs(x) == IF x >= 0 THEN x ELSE -x

\* (riskScore * 1000) / 1e18 and (riskScore * 2000) / 1e18 on the unit grid
_calculateAllocation(riskScore, action) ==
    LET defensiveBPS ==
            IF action = "DEFENSIVE"
            THEN LET d == 8000 + (riskScore * 1000) \div RiskScale
                 IN  IF d > 9000 THEN 9000 ELSE d
            ELSE IF action = "AGGRESSIVE"
            THEN LET d == 3000 + (riskScore * 2000) \div RiskScale
                 IN  IF d > 5000 THEN 5000 ELSE d
            ELSE 5000 + (riskScore * 2000) \div RiskScale
    IN  [defensiveBPS |-> defensiveBPS, aggressiveBPS |-> TotalBPS - defensiveBPS]

\* the freshness check rejecting a round exactly 3 hours old
_verifyOracleFreshness_Inclusive(timestamp, updatedAt) ==
    IF updatedAt > timestamp THEN "Panic(0x11)"
    ELSE IF timestamp - updatedAt >= ORACLE_STALENESS_THRESHOLD THEN "OracleStale"
    ELSE ""

\* "" when the feed is fresh; the subtraction is checked, so an update time
\* later than the block time panics
_verifyOracleFreshness(timestamp, updatedAt) ==
    IF updatedAt > timestamp THEN "Panic(0x11)"
    ELSE IF timestamp - updatedAt > ORACLE_STALENESS_THRESHOLD THEN "OracleStale"
    ELSE ""

\* the circuit breaker tripping one basis point early
MovementTooLarge_Inclusive(movementBPS) == movementBPS >= MAX_SINGLE_MOVEMENT_BPS

\* if (movementBPS > MAX_SINGLE_MOVEMENT_BPS)
MovementTooLarge(movementBPS) == movementBPS > MAX_SINGLE_MOVEMENT_BPS

\* the risk score accepted whatever its value
InvalidRiskScore_Unchecked(riskScore) == FALSE

\* if (riskScore > 1e18) revert InvalidRiskScore()
InvalidRiskScore(riskScore) == riskScore > RiskScale

\* rebalance(riskScore, vixValue, aiRationale, suggestedAction) sent by sender
\* in a block of time timestamp, the price feed reporting updatedAt
rebalance(v, timestamp, updatedAt, sender, riskScore, vixValue, aiRationale, suggestedAction) ==
    LET freshness   == _verifyOracleFreshness(timestamp, updatedAt)
        allocation  == _calculateAllocation(riskScore, suggestedAction)
        movementBPS == _abs(allocation.defensiveBPS - v.defensiveAllocationBPS)
    IN  IF v.paused THEN Revert(v, "Pausable: paused")
        ELSE IF ~hasRole(v, "CRE_EXECUTOR_ROLE", sender) THEN Revert(v, "AccessControl")
        ELSE IF InvalidRiskScore(riskScore) THEN Revert(v, "InvalidRiskScore")
        ELSE IF freshness # "" THEN Revert(v, freshness)
        ELSE IF allocation.defensiveBPS + allocation.aggressiveBPS # TotalBPS
        THEN Revert(v, "InvalidAllocation")
        ELSE IF MovementTooLarge(movementBPS)
        \* emit CircuitBreakerTriggered; _pause(); revert MovementTooLarge(...)
        THEN Revert(v, "MovementTooLarge")
        ELSE Success([v EXCEPT
                 !.latestRisk = [timestamp   |-> timestamp,
                                 riskScore   |-> riskScore,
                                 vixValue    |-> vixValue,
                                 aiRationale |-> aiRationale,
                                 action      |-> suggestedAction],
                 !.lastRebalanceTime       = timestamp,
                 !.totalRebalances         = v.totalRebalances + 1,
                 !.defensiveAllocationBPS  = allocation.defensiveBPS,
                 !.aggressiveAllocationBPS = allocation.aggressiveBPS])

pause(v, sender) ==
    IF ~hasRole(v, "GUARDIAN_ROLE", sender) THEN Revert(v, "AccessControl")
    ELSE IF v.paused THEN Revert(v, "Pausable: paused")
    ELSE Success([v EXCEPT !.paused = TRUE])

unpause(v, sender) ==
    IF ~hasRole(v, "GUARDIAN_ROLE", sender) THEN Revert(v, "AccessControl")
    ELSE IF ~v.paused THEN Revert(v, "Pausable: not paused")
    ELSE Success([v EXCEPT !.paused = FALSE])

\* The ERC-4626 entry points, for one investor who is caller, receiver and
\* owner and has approved the vault.  The vault holds what was deposited and
\* nothing else, so a share is worth one unit of the asset; shares counts the
\* investor's shares, which are all the shares there are.

\* whenNotPaused is on the two entry points the contract overrides, deposit
\* and withdraw; mint and redeem are the inherited ones
whenNotPaused(v, function) ==
    IF function \in {"deposit", "withdraw"} THEN ~v.paused ELSE TRUE

\* ERC4626._deposit: the assets come in, the shares are minted
_deposit(v, assets, sharesMinted) ==
    [v EXCEPT !.totalAssets = v.totalAssets + assets,
              !.shares      = v.shares + sharesMinted]

\* ERC4626._withdraw: the shares are burnt, the assets go out
_withdraw(v, assets, sharesBurnt) ==
    [v EXCEPT !.totalAssets = v.totalAssets - assets,
              !.shares      = v.shares - sharesBurnt]

deposit(v, assets) ==
    IF ~whenNotPaused(v, "deposit") THEN Revert(v, "Pausable: paused")
    ELSE Success(_deposit(v, assets, assets))

mint(v, sharesMinted) ==
    IF ~whenNotPaused(v, "mint") THEN Revert(v, "Pausable: paused")
    ELSE Success(_deposit(v, sharesMinted, sharesMinted))

withdraw(v, assets) ==
    IF ~whenNotPaused(v, "withdraw") THEN Revert(v, "Pausable: paused")
    ELSE IF assets > v.shares THEN Revert(v, "ERC4626: withdraw more than max")
    ELSE Success(_withdraw(v, assets, assets))

redeem(v, sharesBurnt) ==
    IF ~whenNotPaused(v, "redeem") THEN Revert(v, "Pausable: paused")
    ELSE IF sharesBurnt > v.shares THEN Revert(v, "ERC4626: redeem more than max")
    ELSE Success(_withdraw(v, sharesBurnt, sharesBurnt))

NoTx ==
    [function |-> "", sender |-> "", riskScore |-> 0, suggestedAction |-> "",
     updatedAt |-> 0, error |-> "", before |-> Deployed]

----------------------------------------------------------------------------
(* AuraShield, the contract the engine's halt report is addressed to.      *)

\* if (riskScore > 80)
CRITICAL_RISK_THRESHOLD == 80

\* the address given to the constructor
AuraOracle == "auraOracle"

\* bool public isProtocolActive = true; the other fields at their zero value
ShieldDeployed ==
    [isProtocolActive |-> TRUE, lastRiskScore |-> 0, lastUpdateTimestamp |-> 0]

\* the halt decided at the threshold itself
ThresholdExceeded_Inclusive(riskScore) == riskScore >= CRITICAL_RISK_THRESHOLD

ThresholdExceeded(riskScore) == riskScore > CRITICAL_RISK_THRESHOLD

\* riskScoreScaled := uint64(systemRiskScore * 10), the score being carried
\* in tenths
riskScoreScaled(systemRiskScore) == (systemRiskScore * 10) \div 10

\* emergencyHalt(riskScore) sent by sender in a block of time timestamp
emergencyHalt(sh, timestamp, sender, riskScore) ==
    IF sender # AuraOracle THEN [error |-> "Unauthorized", shield |-> sh]
    ELSE IF ~sh.isProtocolActive
    THEN [error |-> "ProtocolAlreadyShielded", shield |-> sh]
    ELSE [error  |-> "",
          shield |-> [isProtocolActive    |-> IF ThresholdExceeded(riskScore)
                                              THEN FALSE ELSE sh.isProtocolActive,
                      lastRiskScore       |-> riskScore,
                      lastUpdateTimestamp |-> timestamp]]

NoShieldTx ==
    [calls |-> 0, sender |-> "", riskScore |-> 0, error |-> "", before |-> ShieldDeployed]

----------------------------------------------------------------------------
(* The vault agent's risk calculation (executeStrategy step 3).  The VIX   *)
(* is carried in hundredths (22.5 = 2250), as is the intermediate calc.    *)

\* the score the stubbed response parser returns
AiScore == 45

FallbackCap == 100

\* (vix / 20.0) * 100.0 = 5 * vix
FallbackFactor == 5

\* resp, err := client.SendRequest(rt, &req).Await(), then the status test
callOpenAI(sendErr, statusCode) ==
    IF sendErr THEN [score |-> 0, err |-> "send"]
    ELSE IF statusCode >= 400 THEN [score |-> 0, err |-> "API Error"]
    ELSE [score |-> AiScore, err |-> ""]

\* the fallback without its cap
FallbackRisk_Uncapped(vix) == (FallbackFactor * vix) \div 100

\* calc := (vix / 20.0) * 100.0; if calc > 100 { calc = 100 }; uint64(calc)
FallbackRisk(vix) ==
    LET calc   == FallbackFactor * vix
        capped == IF calc > FallbackCap * 100 THEN FallbackCap * 100 ELSE calc
    IN  capped \div 100

calculateRisk(secretErr, openAIEndpoint, sendErr, statusCode, vix) ==
    LET fallback == [score |-> FallbackRisk(vix), method |-> "FALLBACK_DETERMINISTIC"]
    IN  IF ~secretErr /\ openAIEndpoint # ""
        THEN LET ai == callOpenAI(sendErr, statusCode)
             IN  IF ai.err = "" THEN [score |-> ai.score, method |-> "AI_AGENT"]
                 ELSE fallback
        ELSE fallback

\* the convergence threshold of step 4
ConvergenceThreshold == 5

\* the rebalance requested at the threshold itself
ThresholdTriggered_Inclusive(diff) == diff >= ConvergenceThreshold

\* if diff > 5
ThresholdTriggered(diff) == diff > ConvergenceThreshold

NoStrategyResult ==
    [OldRisk |-> 0, NewRisk |-> 0, ActionTaken |-> FALSE, Method |-> ""]

\* executeStrategy: the state is read, the risk calculated, and the chain
\* write requested through executeRebalance when the risk moved enough;
\* reports counts the calls of GenerateReport
executeStrategy(fetchErr, oldRisk, secretErr, openAIEndpoint, sendErr, statusCode, vix, reportErr) ==
    LET risk == calculateRisk(secretErr, openAIEndpoint, sendErr, statusCode, vix)
        diff == Abs(risk.score - oldRisk)
        done(actionTaken) ==
            [OldRisk |-> oldRisk, NewRisk |-> risk.score,
             ActionTaken |-> actionTaken, Method |-> risk.method]
    IN  IF fetchErr
        THEN [err |-> "failed to read on-chain state", hasResult |-> FALSE,
              result |-> NoStrategyResult, reports |-> 0]
        ELSE IF ThresholdTriggered(diff)
        THEN IF reportErr
             THEN [err |-> "report", hasResult |-> FALSE,
                   result |-> NoStrategyResult, reports |-> 1]
             ELSE [err |-> "", hasResult |-> TRUE, result |-> done(TRUE),
                   reports |-> 1]
        ELSE [err |-> "", hasResult |-> TRUE, result |-> done(FALSE), reports |-> 0]

NoStrategy ==
    [ran |-> FALSE, fetchErr |-> FALSE, oldRisk |-> 0, secretErr |-> FALSE,
     statusCode |-> 0, vix |-> 0, reportErr |-> FALSE, err |-> "",
     hasResult |-> FALSE, result |-> NoStrategyResult, reports |-> 0]

\* The institutional vault agent (onCronTrigger).  Times are uint64 seconds,
\* carried modulo 2^16 in place of 2^64: every time and delay explored is
\* below 2^15, so a difference wraps exactly when it does in 64 bits.  Risk
\* scores and the threshold are in hundredths (0.87 = 87), sentiment too.
UintModulus == 65536

\* timeSinceLastRebalance := currentTime - onChainState.LastRebalanceTime
Elapsed(currentTime, lastRebalanceTime) ==
    (currentTime - lastRebalanceTime) % UintModulus

\* the rebalance decided at the threshold itself
ShouldRebalance_Inclusive(riskScore, riskThreshold) == riskScore >= riskThreshold

\* shouldRebalance := aiRecommendation.RiskScore > config.RiskThreshold
ShouldRebalance(riskScore, riskThreshold) == riskScore > riskThreshold

\* what fetchMarketSentiment returns
NewsSentiment == [Score |-> -35, Source |-> "NewsAPI"]

\* sentiment = &MarketSentiment{Score: 0.0, Source: "Fallback"}
NeutralSentiment == [Score |-> 0, Source |-> "Fallback"]

NoSentiment == [Score |-> 0, Source |-> ""]

\* report, err := runtime.GenerateReport(reportReq).Await()
executeRebalance(reportErr) ==
    IF reportErr THEN [err |-> "chain write failed", tx |-> ""]
    ELSE [err |-> "", tx |-> "0x7f4b5c2a...3b8e"]

\* the outcome of a run: the status of the result returned, or the error;
\* consulted tells whether consultAIAgent was called, reports counts the
\* calls of GenerateReport
CronOutcome(status, err, consulted, sentiment, reports) ==
    [status |-> status, err |-> err, consulted |-> consulted,
     sentiment |-> sentiment, reports |-> reports]

onCronTrigger(cfg, currentTime, readErr, lastRebalanceTime, vixErr, sentimentErr, aiErr, riskScore, reportErr) ==
    LET timeSinceLastRebalance == Elapsed(currentTime, lastRebalanceTime)
        sentiment == IF sentimentErr THEN NeutralSentiment ELSE NewsSentiment
        txResult  == executeRebalance(reportErr)
    IN  IF readErr THEN CronOutcome("", "read vault state", FALSE, NoSentiment, 0)
        ELSE IF timeSinceLastRebalance < cfg.MinRebalanceDelay
        THEN CronOutcome("SKIPPED", "", FALSE, NoSentiment, 0)
        ELSE IF vixErr THEN CronOutcome("", "fetch VIX", FALSE, NoSentiment, 0)
        ELSE IF aiErr THEN CronOutcome("", "AI consultation", TRUE, sentiment, 0)
        ELSE IF ~ShouldRebalance(riskScore, cfg.RiskThreshold)
        THEN CronOutcome("NO_ACTION", "", TRUE, sentiment, 0)
        ELSE IF txResult.err # ""
        THEN CronOutcome("", txResult.err, TRUE, sentiment, 1)
        ELSE CronOutcome("EXECUTED", "", TRUE, sentiment, 1)

NoCron ==
    [ran |-> FALSE, cfg |-> [RiskThreshold |-> 0, MinRebalanceDelay |-> 0],
     currentTime |-> 0, readErr |-> FALSE, lastRebalanceTime |-> 0,
     vixErr |-> FALSE, sentimentErr |-> FALSE, aiErr |-> FALSE, riskScore |-> 0,
     reportErr |-> FALSE, outcome |-> CronOutcome("", "", FALSE, NoSentiment, 0)]

\* no run yet
NoRun ==
    [ran |-> FALSE, secretErr |-> FALSE, openAIEndpoint |-> "", sendErr |-> FALSE,
     statusCode |-> 0, vix |-> 0, score |-> 0, method |-> ""]

----------------------------------------------------------------------------
(* Configurations and feeds explored *)

\* documented tiers: Normal 0-2 %, Elevated 2-5 %, High 5-10 %, Extreme > 10 %
DefaultThresholds ==
    [MaxVariancePercent |-> 200, HighVolatilityThreshold |-> 500,
     ExtremeVolatilityThreshold |-> 1000]

Configs == { DefaultThresholds }

DemoConfigs ==
    { [MaxVariancePercent |-> a, HighVolatilityThreshold |-> h,
       ExtremeVolatilityThreshold |-> x] :
        a \in {10, 100, 200}, h \in {150, 180, 500, 2000}, x \in {1000, 2200, 3000} }

\* anchor observations: $180 and the prices exactly 5 % and just beyond 5 %
\* above and below it, and two sources far apart around $180
GoldFeeds ==
    { <<Usd(180, 0)>>, <<Usd(189, 0)>>, <<Usd(189, 1)>>, <<Usd(171, 0)>>,
      <<Usd(170, 99)>>, <<Usd(200, 0), Usd(160, 0)>> }

MsftFeeds == { <<Usd(438, 20)>>, <<Usd(490, 0), Usd(390, 0)>> }

\* cross-asset variance readings: the three mock stages, and 0.7 % / 0.71 %
\* (after 0.2 %, 0.2 % the acceleration is exactly 0.5 % / just above it)
VarianceFeeds == {20, 70, 71, 180, 2500}

Instances == {1, 2}

NoResult ==
    [GoldPrice |-> 0, MsftPrice |-> 0, GoldVariance |-> 0, MsftVariance |-> 0,
     CrossAssetVariance |-> 0, VolatilityWarning |-> "", SystemRiskScore |-> 0,
     MarketMomentum |-> "", OnChainStatus |-> ""]

NoProbe ==
    [baseScore |-> 0, goldRisk |-> 0, msftRisk |-> 0, computed |-> FALSE,
     acceleration |-> 0, momentum |-> "", riskBonus |-> 0, previousGold |-> 0,
     triggered |-> FALSE, goldDeviation |-> NaN, divisions |-> {}, reports |-> 0,
     reportErr |-> FALSE, goldObserved |-> 0, msftObserved |-> 0,
     highVolatility |-> FALSE]

\* no trigger handled yet
NoInvocation ==
    [running |-> FALSE, returned |-> FALSE, triggers |-> 0, startCount |-> 0,
     cycles |-> 0, depth |-> 0, value |-> NoResult]

\* nothing recorded yet
NoReplay == [phase |-> "record", log |-> <<>>, position |-> 0]

\* computeConsensus not called yet
NoAggregation ==
    [computed |-> FALSE, prices |-> <<>>, callerPrices |-> <<>>,
     consensus |-> [MedianPrice |-> 0, Variance |-> 0, RiskScore |-> 0]]

\* the package-level variables as the Go runtime initialises them
FreshState ==
    [previousGoldPrice |-> 0, previousMsftPrice |-> 0, varianceHistory |-> <<>>]

Retained ==
    [previousGoldPrice |-> previousGoldPrice,
     previousMsftPrice |-> previousMsftPrice,
     varianceHistory   |-> varianceHistory]

InitWith(cfgs) ==
    /\ config \in cfgs
    /\ previousGoldPrice = FreshState.previousGoldPrice
    /\ previousMsftPrice = FreshState.previousMsftPrice
    /\ executionCount = 0
    /\ varianceHistory = FreshState.varianceHistory
    /\ result = NoResult
    /\ probe = NoProbe
    /\ readings = <<>>
    /\ instance = 1
    /\ solo = [i \in Instances |-> FreshState]
    /\ soloResult = [i \in Instances |-> NoResult]
    /\ replay = NoReplay
    /\ aggregation = NoAggregation
    /\ vault = Deployed
    /\ blockTimestamp = Genesis
    /\ tx = NoTx
    /\ agent = NoRun
    /\ journal = <<>>
    /\ shield = ShieldDeployed
    /\ shieldTx = NoShieldTx
    /\ invocation = NoInvocation
    /\ strategy = NoStrategy
    /\ cron = NoCron

Init == InitWith(Configs)

\* the effect of one cycle on the package-level variables and the result
Apply(c) ==
    /\ executionCount' = executionCount + 1
    /\ previousGoldPrice' = c.state.previousGoldPrice
    /\ previousMsftPrice' = c.state.previousMsftPrice
    /\ varianceHistory' = c.state.varianceHistory
    /\ result' = c.result
    /\ probe' = c.probe
    /\ config' = config

\* one cycle on observations supplied by the fetchers
Evaluate ==
    /\ executionCount < MaxCycles
    /\ \E goldPrices \in GoldFeeds, msftPrices \in MsftFeeds,
          artificialVariance \in VarianceFeeds :
          \E c \in Outcomes(Retained, config, goldPrices, msftPrices,
                            artificialVariance) : Apply(c)
    /\ readings' = Append(readings, varianceHistory'[Len(varianceHistory')])
    /\ UNCHANGED <<instance, solo, soloResult, replay, aggregation>>
    /\ UNCHANGED vaultVars
    /\ UNCHANGED agentVars
    /\ UNCHANGED journalVars
    /\ UNCHANGED shieldVars
    /\ UNCHANGED runVars

Next == Evaluate

Spec == Init /\ [][Next]_vars

----------------------------------------------------------------------------
(* The three-stage demonstration: the prices and the injected variance are *)
(* the ones the handler's switch on executionCount selects.                *)

MockStage(count) ==
    IF count = 1
    THEN [goldPrice |-> Usd(243, 75), msftPrice |-> Usd(438, 20), artificialVariance |-> 20]
    ELSE IF count = 2
    THEN [goldPrice |-> Usd(240, 50), msftPrice |-> Usd(438, 20), artificialVariance |-> 180]
    ELSE [goldPrice |-> Usd(180, 0), msftPrice |-> Usd(438, 20), artificialVariance |-> 2500]

InitDemo == InitWith(DemoConfigs)

onCronTriggerWithMockData ==
    /\ executionCount < MaxStages
    /\ LET stage == MockStage(executionCount + 1)
       IN  \E c \in Outcomes(Retained, config, <<stage.goldPrice>>, <<stage.msftPrice>>,
                              stage.artificialVariance) : Apply(c)
    /\ readings' = Append(readings, result'.CrossAssetVariance)
    /\ UNCHANGED <<instance, solo, soloResult, replay, aggregation>>
    /\ UNCHANGED vaultVars
    /\ UNCHANGED agentVars
    /\ UNCHANGED journalVars
    /\ UNCHANGED shieldVars
    /\ UNCHANGED runVars

NextDemo == onCronTriggerWithMockData

SpecDemo == InitDemo /\ [][NextDemo]_vars

----------------------------------------------------------------------------
(* Trigger invocations of the mock handler.  One invocation runs the body  *)
(* once and then either calls itself or returns; the package-level state   *)
(* lives on between invocations of the same instance.                      *)

\* the number of stages of the scenario
ScenarioLength == 3

\* the handler calling itself once more than the scenario has stages
ContinueScenario_Inclusive(count) == count <= ScenarioLength

\* if executionCount < 3 { return onCronTriggerWithMockData(...) }
ContinueScenario(count) == count < ScenarioLength

\* the body of the handler down to "ITERATION COMPLETE"
MockCycle ==
    /\ LET stage == MockStage(executionCount + 1)
       IN  \E c \in Outcomes(Retained, config, <<stage.goldPrice>>, <<stage.msftPrice>>,
                              stage.artificialVariance) : Apply(c)
    /\ readings' = Append(readings, result'.CrossAssetVariance)
    /\ UNCHANGED <<instance, solo, soloResult, replay, aggregation>>
    /\ UNCHANGED vaultVars
    /\ UNCHANGED agentVars
    /\ UNCHANGED journalVars
    /\ UNCHANGED shieldVars
    /\ UNCHANGED <<strategy, cron>>

\* the cron trigger calls the handler
TriggerFires ==
    /\ ~invocation.running
    /\ invocation.triggers < MaxTriggers
    /\ MockCycle
    /\ invocation' = [running |-> TRUE, returned |-> FALSE,
                      triggers |-> invocation.triggers + 1,
                      startCount |-> executionCount, cycles |-> 1, depth |-> 1,
                      value |-> NoResult]

\* the handler calls itself
SelfInvoke ==
    /\ invocation.running
    /\ ContinueScenario(executionCount)
    /\ MockCycle
    /\ invocation' = [invocation EXCEPT !.cycles = @ + 1, !.depth = @ + 1]

\* the innermost call returns its result, and every caller returns it unchanged
ReturnResult ==
    /\ invocation.running
    /\ ~ContinueScenario(executionCount)
    /\ invocation' = [invocation EXCEPT !.running = FALSE, !.returned = TRUE,
                                        !.depth = 0, !.value = result]
    /\ UNCHANGED engineVars
    /\ UNCHANGED vaultVars
    /\ UNCHANGED agentVars
    /\ UNCHANGED journalVars
    /\ UNCHANGED shieldVars
    /\ UNCHANGED <<strategy, cron>>

NextTrigger == TriggerFires \/ SelfInvoke \/ ReturnResult

SpecTrigger == InitDemo /\ [][NextTrigger]_vars

\* a handler that can take a step takes it
SpecTriggerFair ==
    SpecTrigger /\ WF_vars(SelfInvoke) /\ WF_vars(ReturnResult)

----------------------------------------------------------------------------
(* The demonstration's price stages driven by an arbitrary feed of         *)
(* cross-asset variance readings.                                          *)

ObserveVariance ==
    /\ executionCount < MaxReadings
    /\ LET stage == MockStage(executionCount + 1)
       IN  \E artificialVariance \in VarianceFeeds :
             /\ \E c \in Outcomes(Retained, config, <<stage.goldPrice>>,
                                   <<stage.msftPrice>>, artificialVariance) : Apply(c)
             /\ readings' = Append(readings, artificialVariance)
    /\ UNCHANGED <<instance, solo, soloResult, replay, aggregation>>
    /\ UNCHANGED vaultVars
    /\ UNCHANGED agentVars
    /\ UNCHANGED journalVars
    /\ UNCHANGED shieldVars
    /\ UNCHANGED runVars

NextHistory == ObserveVariance

SpecHistory == Init /\ [][NextHistory]_vars

----------------------------------------------------------------------------
(* Two monitored pairs served by the same process: the handler runs for    *)
(* pair i on pair i's observations, on the package-level variables.  solo  *)
(* carries, beside it, the retained state pair i would own by itself.      *)

PairGoldFeeds == { <<Usd(180, 0)>>, <<Usd(243, 75)>> }

PairVarianceFeeds == {20, 2500}

EvaluateFor(i) ==
    /\ executionCount < MaxInterleaved
    /\ \E goldPrices \in PairGoldFeeds, artificialVariance \in PairVarianceFeeds,
          reportErr \in BOOLEAN :
          /\ Apply(Cycle(Retained, config, goldPrices, <<Usd(438, 20)>>,
                         artificialVariance, reportErr))
          /\ LET alone == Cycle(solo[i], config, goldPrices, <<Usd(438, 20)>>,
                                artificialVariance, reportErr)
             IN  /\ solo' = [solo EXCEPT ![i] = alone.state]
                 /\ soloResult' = [soloResult EXCEPT ![i] = alone.result]
          /\ readings' = Append(readings, artificialVariance)
    /\ instance' = i
    /\ UNCHANGED <<replay, aggregation>>
    /\ UNCHANGED vaultVars
    /\ UNCHANGED agentVars
    /\ UNCHANGED journalVars
    /\ UNCHANGED shieldVars
    /\ UNCHANGED runVars

NextInstances == \E i \in Instances : EvaluateFor(i)

SpecInstances == Init /\ [][NextInstances]_vars

----------------------------------------------------------------------------
(* A run recorded cycle by cycle, then replayed in a restarted process: the *)
(* replay feeds the handler the recorded inputs in the recorded order; the  *)
(* outcome of a chain write is the environment's, in both runs.             *)

ReplayGoldFeeds == { <<Usd(180, 0)>>, <<Usd(243, 75)>>, <<Usd(200, 0), Usd(160, 0)>> }

ReplayVarianceFeeds == {20, 71, 2500}

\* what a cycle hands to its caller, the timestamp and the chain status left out
Verdict(c) ==
    [SystemRiskScore    |-> c.result.SystemRiskScore,
     VolatilityWarning  |-> c.result.VolatilityWarning,
     MarketMomentum     |-> c.result.MarketMomentum,
     actuationRequested |-> c.probe.reports > 0]

\* a restart that finds the package-level variables as the last run left them
Restarted_KeepState(st) == st

\* the package-level variables of a new process
Restarted(st) == FreshState

RecordCycle ==
    /\ replay.phase = "record"
    /\ Len(replay.log) < MaxReplayed
    /\ \E goldPrices \in ReplayGoldFeeds, artificialVariance \in ReplayVarianceFeeds :
          \E c \in Outcomes(Retained, config, goldPrices, <<Usd(438, 20)>>,
                            artificialVariance) :
             /\ Apply(c)
             /\ replay' = [replay EXCEPT !.log = Append(@,
                               [goldPrices |-> goldPrices,
                                artificialVariance |-> artificialVariance,
                                verdict |-> Verdict(c)])]
             /\ readings' = Append(readings, artificialVariance)
    /\ UNCHANGED <<instance, solo, soloResult, aggregation>>
    /\ UNCHANGED vaultVars
    /\ UNCHANGED agentVars
    /\ UNCHANGED journalVars
    /\ UNCHANGED shieldVars
    /\ UNCHANGED runVars

Restart ==
    /\ replay.phase = "record"
    /\ Len(replay.log) >= 1
    /\ LET st == Restarted(Retained)
       IN  /\ previousGoldPrice' = st.previousGoldPrice
           /\ previousMsftPrice' = st.previousMsftPrice
           /\ varianceHistory' = st.varianceHistory
    /\ executionCount' = 0
    /\ result' = NoResult
    /\ probe' = NoProbe
    /\ readings' = <<>>
    /\ replay' = [replay EXCEPT !.phase = "replay"]
    /\ UNCHANGED <<config, instance, solo, soloResult, aggregation>>
    /\ UNCHANGED vaultVars
    /\ UNCHANGED agentVars
    /\ UNCHANGED journalVars
    /\ UNCHANGED shieldVars
    /\ UNCHANGED runVars

ReplayCycle ==
    /\ replay.phase = "replay"
    /\ replay.position < Len(replay.log)
    /\ LET recorded == replay.log[replay.position + 1]
       IN  \E c \in Outcomes(Retained, config, recorded.goldPrices, <<Usd(438, 20)>>,
                             recorded.artificialVariance) :
             /\ Apply(c)
             /\ readings' = Append(readings, recorded.artificialVariance)
    /\ replay' = [replay EXCEPT !.position = @ + 1]
    /\ UNCHANGED <<instance, solo, soloResult, aggregation>>
    /\ UNCHANGED vaultVars
    /\ UNCHANGED agentVars
    /\ UNCHANGED journalVars
    /\ UNCHANGED shieldVars
    /\ UNCHANGED runVars

NextReplay == RecordCycle \/ Restart \/ ReplayCycle

SpecReplay == Init /\ [][NextReplay]_vars

----------------------------------------------------------------------------
(* Cycles in which a fetcher may have delivered no observation at all for   *)
(* a symbol: the handler hands the empty list to computeConsensus and       *)
(* carries on with what it returns.                                         *)

SparseGoldFeeds == { <<>>, <<Usd(180, 0)>>, <<Usd(243, 75)>> }

SparseMsftFeeds == { <<>>, <<Usd(438, 20)>> }

SparseVarianceFeeds == {20, 2500}

EvaluateSparse ==
    /\ executionCount < MaxSparse
    /\ \E goldPrices \in SparseGoldFeeds, msftPrices \in SparseMsftFeeds,
          artificialVariance \in SparseVarianceFeeds :
          /\ \E c \in Outcomes(Retained, config, goldPrices, msftPrices,
                                artificialVariance) : Apply(c)
          /\ readings' = Append(readings, artificialVariance)
    /\ UNCHANGED <<instance, solo, soloResult, replay, aggregation>>
    /\ UNCHANGED vaultVars
    /\ UNCHANGED agentVars
    /\ UNCHANGED journalVars
    /\ UNCHANGED shieldVars
    /\ UNCHANGED runVars

NextSparse == EvaluateSparse

SpecSparse == Init /\ [][NextSparse]_vars

----------------------------------------------------------------------------
(* computeConsensus called on arbitrary observation lists: up to           *)
(* MaxObservations prices in any order, equal prices and zero prices       *)
(* included, under threshold configurations that include zero thresholds.  *)
(* $9.80 / $10.20 have a variance of exactly 2 %.                          *)

ConsensusPrices == {0, Usd(9, 80), Usd(10, 0), Usd(10, 20), Usd(11, 0)}

ConsensusConfigs ==
    { [MaxVariancePercent |-> a, HighVolatilityThreshold |-> h,
       ExtremeVolatilityThreshold |-> x] :
        a \in {0, 200}, h \in {200, 500}, x \in {200, 1000} }

ObservationLists == UNION { [1..n -> ConsensusPrices] : n \in 0..MaxObservations }

InitConsensus == InitWith(ConsensusConfigs)

\* the caller's slice after the call: sort.Slice orders the elements of the
\* slice it is given, which shares its backing array with the caller's, and
\* the early return on an empty slice comes before the sort
CallerSliceAfter(prices) == IF Len(prices) = 0 THEN prices ELSE SortAsc(prices)

\* one call; the function keeps nothing between calls
Aggregate ==
    /\ ~aggregation.computed
    /\ \E prices \in ObservationLists :
          aggregation' = [computed  |-> TRUE,
                          prices    |-> prices,
                          callerPrices |-> CallerSliceAfter(prices),
                          consensus |-> computeConsensus(prices, config)]
    /\ UNCHANGED <<config, previousGoldPrice, previousMsftPrice, executionCount,
                   varianceHistory, result, probe, readings, instance, solo,
                   soloResult, replay>>
    /\ UNCHANGED vaultVars
    /\ UNCHANGED agentVars
    /\ UNCHANGED journalVars
    /\ UNCHANGED shieldVars
    /\ UNCHANGED runVars

NextConsensus == Aggregate

SpecConsensus == InitConsensus /\ [][NextConsensus]_vars

----------------------------------------------------------------------------
(* Transactions sent to the deployed vault, one per block, by any account, *)
(* the price feed reporting a round updated now, exactly 3 hours ago, one  *)
(* second more than 3 hours ago, or at a time after the block's.           *)

RiskScores == {0, 1, RiskScale \div 2, RiskScale, RiskScale + 1}

SuggestedActions == {"DEFENSIVE", "NEUTRAL", "AGGRESSIVE"}

OracleUpdates(timestamp) ==
    {timestamp, timestamp - ORACLE_STALENESS_THRESHOLD,
     timestamp - ORACLE_STALENESS_THRESHOLD - 1, timestamp + 1}

MoreBlocks == blockTimestamp < Genesis + MaxTransactions * BlockInterval

\* the transaction is mined in the next block, reverted or not
Mined(function, sender, riskScore, suggestedAction, updatedAt, outcome) ==
    /\ vault' = outcome.vault
    /\ blockTimestamp' = blockTimestamp + BlockInterval
    /\ tx' = [function |-> function, sender |-> sender, riskScore |-> riskScore,
              suggestedAction |-> suggestedAction, updatedAt |-> updatedAt,
              error |-> outcome.error, before |-> vault]
    /\ UNCHANGED engineVars
    /\ UNCHANGED agentVars
    /\ UNCHANGED journalVars
    /\ UNCHANGED shieldVars
    /\ UNCHANGED runVars

Rebalance ==
    /\ MoreBlocks
    /\ LET timestamp == blockTimestamp + BlockInterval
       IN  \E sender \in Accounts, riskScore \in RiskScores,
              suggestedAction \in SuggestedActions,
              updatedAt \in OracleUpdates(timestamp) :
              Mined("rebalance", sender, riskScore, suggestedAction, updatedAt,
                    rebalance(vault, timestamp, updatedAt, sender, riskScore,
                              2550, "rationale", suggestedAction))

Pause ==
    /\ MoreBlocks
    /\ \E sender \in Accounts :
          Mined("pause", sender, 0, "", 0, pause(vault, sender))

Unpause ==
    /\ MoreBlocks
    /\ \E sender \in Accounts :
          Mined("unpause", sender, 0, "", 0, unpause(vault, sender))

\* the amount the investor moves in one call
Lot == 100

Deposit ==
    /\ MoreBlocks
    /\ Mined("deposit", Investor, 0, "", 0, deposit(vault, Lot))

Mint ==
    /\ MoreBlocks
    /\ Mined("mint", Investor, 0, "", 0, mint(vault, Lot))

Withdraw ==
    /\ MoreBlocks
    /\ Mined("withdraw", Investor, 0, "", 0, withdraw(vault, Lot))

Redeem ==
    /\ MoreBlocks
    /\ Mined("redeem", Investor, 0, "", 0, redeem(vault, Lot))

NextVault == Rebalance \/ Pause \/ Unpause \/ Deposit \/ Mint \/ Withdraw \/ Redeem

SpecVault == Init /\ [][NextVault]_vars

----------------------------------------------------------------------------
(* calculateRisk under every combination of a secret that can or cannot be *)
(* fetched, an endpoint configured or not, a request that is sent or not,  *)
(* an HTTP status on either side of 400, and a VIX on either side of 20.   *)

Endpoints == {"", "https://api.openai.com/v1/chat/completions"}

StatusCodes == {200, 399, 400, 500}

VixValues == {0, 19, 1037, 1999, 2000, 2001, 2250, 8500}

CalculateRisk ==
    /\ ~agent.ran
    /\ \E secretErr \in BOOLEAN, openAIEndpoint \in Endpoints, sendErr \in BOOLEAN,
          statusCode \in StatusCodes, vix \in VixValues :
          LET risk == calculateRisk(secretErr, openAIEndpoint, sendErr, statusCode, vix)
          IN  agent' = [ran |-> TRUE, secretErr |-> secretErr,
                        openAIEndpoint |-> openAIEndpoint, sendErr |-> sendErr,
                        statusCode |-> statusCode, vix |-> vix,
                        score |-> risk.score, method |-> risk.method]
    /\ UNCHANGED engineVars
    /\ UNCHANGED vaultVars
    /\ UNCHANGED journalVars
    /\ UNCHANGED shieldVars
    /\ UNCHANGED runVars

NextAgent == CalculateRisk

SpecAgent == Init /\ [][NextAgent]_vars

----------------------------------------------------------------------------
(* Calls of emergencyHalt, one per block, from the oracle or from another  *)
(* account, with scores on both sides of 80 and the score the engine sends *)
(* with a halt.                                                            *)

ShieldScores == {0, 79, 80, 81, riskScoreScaled(HaltScore)}

EmergencyHalt ==
    /\ shieldTx.calls < MaxShieldCalls
    /\ \E sender \in {AuraOracle, Stranger}, riskScore \in ShieldScores :
          LET timestamp == Genesis + (shieldTx.calls + 1) * BlockInterval
              outcome   == emergencyHalt(shield, timestamp, sender, riskScore)
          IN  /\ shield' = outcome.shield
              /\ shieldTx' = [calls |-> shieldTx.calls + 1, sender |-> sender,
                              riskScore |-> riskScore, error |-> outcome.error,
                              before |-> shield]
    /\ UNCHANGED engineVars
    /\ UNCHANGED vaultVars
    /\ UNCHANGED agentVars
    /\ UNCHANGED journalVars
    /\ UNCHANGED runVars

NextShield == EmergencyHalt

SpecShield == Init /\ [][NextShield]_vars

----------------------------------------------------------------------------
(* executeStrategy for risk scores read from the chain on both sides of    *)
(* the scores the calculation can return (45 from the AI path; 0 to 100    *)
(* from the fallback), with the state read, the AI call and the chain      *)
(* write each succeeding or failing.                                       *)

OldRisks == {39, 40, 45, 50, 51, 94, 95, 100}

ExecuteStrategy ==
    /\ ~strategy.ran
    /\ \E fetchErr \in BOOLEAN, oldRisk \in OldRisks, secretErr \in BOOLEAN,
          statusCode \in {200, 500}, vix \in VixValues, reportErr \in BOOLEAN :
          LET run == executeStrategy(fetchErr, oldRisk, secretErr,
                                     "https://api.openai.com/v1/chat/completions",
                                     FALSE, statusCode, vix, reportErr)
          IN  strategy' = [ran |-> TRUE, fetchErr |-> fetchErr, oldRisk |-> oldRisk,
                           secretErr |-> secretErr, statusCode |-> statusCode,
                           vix |-> vix, reportErr |-> reportErr, err |-> run.err,
                           hasResult |-> run.hasResult, result |-> run.result,
                           reports |-> run.reports]
    /\ UNCHANGED engineVars
    /\ UNCHANGED vaultVars
    /\ UNCHANGED agentVars
    /\ UNCHANGED journalVars
    /\ UNCHANGED shieldVars
    /\ UNCHANGED <<invocation, cron>>

NextStrategy == ExecuteStrategy

SpecStrategy == Init /\ [][NextStrategy]_vars

----------------------------------------------------------------------------
(* onCronTrigger at one clock time, the vault reporting its last rebalance *)
(* an hour ago (as the simulated reader does), exactly or one second short *)
(* of the cooling period ago, now, or after the agent's clock; each of the *)
(* fetches, the AI call and the chain write succeeding or failing; AI risk *)
(* scores on both sides of the threshold of 0.80.                          *)

CronNow == 20000

CronConfigs ==
    { [RiskThreshold |-> 80, MinRebalanceDelay |-> d] : d \in {900, 3600} }

LastRebalanceTimes(cfg) ==
    {CronNow - 3600, CronNow - cfg.MinRebalanceDelay,
     CronNow - cfg.MinRebalanceDelay + 1, CronNow, CronNow + 1, CronNow + 60}

AiRiskScores == {79, 80, 81, 87}

OnCronTrigger ==
    /\ ~cron.ran
    /\ \E cfg \in CronConfigs, readErr \in BOOLEAN, vixErr \in BOOLEAN,
          sentimentErr \in BOOLEAN, aiErr \in BOOLEAN, riskScore \in AiRiskScores,
          reportErr \in BOOLEAN :
          \E lastRebalanceTime \in LastRebalanceTimes(cfg) :
             cron' = [ran |-> TRUE, cfg |-> cfg, currentTime |-> CronNow,
                      readErr |-> readErr, lastRebalanceTime |-> lastRebalanceTime,
                      vixErr |-> vixErr, sentimentErr |-> sentimentErr,
                      aiErr |-> aiErr, riskScore |-> riskScore,
                      reportErr |-> reportErr,
                      outcome |-> onCronTrigger(cfg, CronNow, readErr,
                                                lastRebalanceTime, vixErr,
                                                sentimentErr, aiErr, riskScore,
                                                reportErr)]
    /\ UNCHANGED engineVars
    /\ UNCHANGED vaultVars
    /\ UNCHANGED agentVars
    /\ UNCHANGED journalVars
    /\ UNCHANGED shieldVars
    /\ UNCHANGED <<invocation, strategy>>

NextCron == OnCronTrigger

SpecCron == Init /\ [][NextCron]_vars

----------------------------------------------------------------------------
(* A run whose anchor prices and verdicts are journalled cycle by cycle.   *)
(* The anchor climbs a staircase of steps of at most 5 % ($180.00,         *)
(* $189.00, $198.45, $208.37), jumps between its steps, or drops to $171.  *)

JournalGoldFeeds ==
    { <<Usd(180, 0)>>, <<Usd(189, 0)>>, <<Usd(198, 45)>>, <<Usd(208, 37)>>,
      <<Usd(171, 0)>> }

JournalEntry(c) ==
    [goldPrice    |-> c.result.GoldPrice,
     previousGold |-> c.probe.previousGold,
     triggered    |-> c.probe.triggered,
     alert        |-> c.result.VolatilityWarning,
     score        |-> c.result.SystemRiskScore,
     reports      |-> c.probe.reports,
     retained     |-> c.state.previousGoldPrice]

EvaluateJournalled ==
    /\ executionCount < MaxJournal
    /\ \E goldPrices \in JournalGoldFeeds :
          \E c \in Outcomes(Retained, config, goldPrices, <<Usd(438, 20)>>, 20) :
             /\ Apply(c)
             /\ journal' = Append(journal, JournalEntry(c))
    /\ readings' = Append(readings, 20)
    /\ UNCHANGED <<instance, solo, soloResult, replay, aggregation>>
    /\ UNCHANGED vaultVars
    /\ UNCHANGED agentVars
    /\ UNCHANGED shieldVars
    /\ UNCHANGED runVars

NextJournal == EvaluateJournalled

SpecJournal == Init /\ [][NextJournal]_vars

----------------------------------------------------------------------------
(* Properties *)

CycleRan == executionCount >= 1

\* the anchor price of the last cycle moved by more than 5 % of the price
\* retained from the cycle before (|price - last| / last > 1/20)
MovedBeyondLimit ==
    /\ probe.previousGold # 0
    /\ 20 * Abs(result.GoldPrice - probe.previousGold) > probe.previousGold

ActuationRequested == probe.reports > 0

\* C1: in every cycle in which the anchor price moved more than the maximum
\* deviation from the previous cycle's price, the final systemRiskScore is
\* exactly 10.0 and the alert is CRITICAL_HALT, whatever the tier scores, the
\* momentum bonus and the cross-asset variance of that cycle.
C1_HaltOverrides ==
    (CycleRan /\ MovedBeyondLimit)
        => /\ result.SystemRiskScore = 100
           /\ result.VolatilityWarning = "CRITICAL_HALT"

\* a halting cycle whose tier scores were maximal, whose momentum bonus was
\* added and whose cross-asset variance was above the high threshold
C1_Witness ==
    /\ CycleRan /\ MovedBeyondLimit
    /\ probe.baseScore = 100
    /\ probe.riskBonus = PREDICTIVE_RISK_BONUS
    /\ result.CrossAssetVariance > config.HighVolatilityThreshold
    /\ result.SystemRiskScore = 100

\* C2: from fresh state the first cycle never triggers the guard, for every
\* anchor price: no CRITICAL_HALT, no chain write, and the price becomes the
\* baseline.
C2_FirstCycleIsBaseline ==
    executionCount = 1
        => /\ ~probe.triggered
           /\ result.VolatilityWarning # "CRITICAL_HALT"
           /\ result.MarketMomentum # "Critical"
           /\ ~ActuationRequested
           /\ result.OnChainStatus = "IDLE"
           /\ previousGoldPrice = result.GoldPrice

C2_Witness ==
    /\ executionCount = 1
    /\ result.GoldPrice = Usd(189, 1)
    /\ previousGoldPrice = Usd(189, 1)
    /\ result.OnChainStatus = "IDLE"

\* C3: with a non-zero retained price the guard triggers exactly when
\* |price - last| / last is strictly greater than 5 %: a move of exactly 5 %
\* up or down does not trigger, a larger one does.
C3_StrictFivePercent ==
    (CycleRan /\ probe.previousGold # 0)
        => /\ probe.triggered <=> MovedBeyondLimit
           /\ (result.VolatilityWarning = "CRITICAL_HALT") <=> MovedBeyondLimit
           /\ (20 * Abs(result.GoldPrice - probe.previousGold) = probe.previousGold)
                  => result.VolatilityWarning # "CRITICAL_HALT"

\* $180 -> $171 is exactly 5 % down and raises no halt
C3_Witness ==
    /\ CycleRan
    /\ probe.previousGold = Usd(180, 0)
    /\ result.GoldPrice = Usd(171, 0)
    /\ ~probe.triggered
    /\ result.VolatilityWarning # "CRITICAL_HALT"

\* the moves just beyond 5 % and exactly 5 % upward are both explored
C3_WitnessBeyond ==
    /\ CycleRan
    /\ probe.previousGold = Usd(180, 0)
    /\ result.GoldPrice \in {Usd(189, 1), Usd(170, 99)}
    /\ result.VolatilityWarning = "CRITICAL_HALT"

C4_ActuationOnlyOnHalt ==
    CycleRan => (ActuationRequested <=> result.VolatilityWarning = "CRITICAL_HALT")

ScenarioStages ==
    /\ executionCount \in 1..3 =>
          /\ result.GoldPrice = MockStage(executionCount).goldPrice
          /\ result.MsftPrice = Usd(438, 20)
    /\ executionCount = 1 =>
          /\ result.GoldPrice = Usd(243, 75)
          /\ probe.previousGold = 0
          /\ ~ActuationRequested
          /\ result.OnChainStatus = "IDLE"
          /\ result.VolatilityWarning # "CRITICAL_HALT"
    /\ executionCount = 2 =>
          /\ result.GoldPrice = Usd(240, 50)
          /\ probe.goldDeviation = 133
          /\ ~ActuationRequested
          /\ result.VolatilityWarning # "CRITICAL_HALT"
    /\ executionCount = 3 =>
          /\ result.GoldPrice = Usd(180, 0)
          /\ result.VolatilityWarning = "CRITICAL_HALT"
          /\ result.SystemRiskScore = 100
          /\ ActuationRequested

LastReadings(k) == SubSeq(readings, Len(readings) - k + 1, Len(readings))

\* C7: with three readings (oldest, previous, current) in the history after an
\* update, acceleration = (current - previous) - (previous - oldest); the
\* verdict is Unstable with bonus 3.0 iff acceleration > 0.5, else Stable with
\* bonus 0; and [0.2, 1.8, 25.0] gives 21.6, Unstable, 3.0.
C7_SecondDifference ==
    (CycleRan /\ Len(varianceHistory) = 3) =>
        LET n            == Len(readings)
            current      == readings[n]
            previous     == readings[n - 1]
            oldest       == readings[n - 2]
            acceleration == (current - previous) - (previous - oldest)
        IN  /\ probe.computed
            /\ probe.acceleration = acceleration
            /\ (acceleration > 50)
                 => (probe.momentum = "Unstable" /\ probe.riskBonus = 30)
            /\ (acceleration <= 50)
                 => (probe.momentum = "Stable" /\ probe.riskBonus = 0)
            /\ (<<oldest, previous, current>> = <<20, 180, 2500>>)
                 => /\ probe.acceleration = 2160
                    /\ probe.momentum = "Unstable"
                    /\ probe.riskBonus = 30

C7_Witness ==
    /\ varianceHistory = <<20, 180, 2500>>
    /\ probe.acceleration = 2160
    /\ probe.momentum = "Unstable"
    /\ probe.riskBonus = 30

\* an acceleration of exactly 0.5 % (0.2, 0.2, 0.7) stays Stable
C7_WitnessAtThreshold ==
    /\ varianceHistory = <<20, 20, 70>>
    /\ probe.computed /\ probe.acceleration = 50
    /\ probe.momentum = "Stable"

C8_WitnessThird ==
    /\ executionCount = 3
    /\ probe.momentum = "Unstable"

\* C9: the retained history has at most 3 entries and holds the most recent
\* min(n, 3) readings in arrival order, n being the number of cycles run.
C9_HistoryIsLastThree ==
    /\ Len(readings) = executionCount
    /\ Len(varianceHistory) <= 3
    /\ Len(varianceHistory) = (IF executionCount < 3 THEN executionCount ELSE 3)
    /\ varianceHistory = LastReadings(Len(varianceHistory))

\* four readings arrived, the first one differing from the rest, and it is gone
C9_Witness ==
    /\ Len(readings) = 4
    /\ readings[1] # readings[2] /\ readings[1] # readings[4]
    /\ varianceHistory = Tail(readings)

\* C10: with the cycles of two monitored pairs interleaved, each cycle yields
\* for its pair the verdicts the pair would obtain running alone.
C10_PairsAreIsolated ==
    CycleRan =>
        /\ result.SystemRiskScore = soloResult[instance].SystemRiskScore
        /\ result.VolatilityWarning = soloResult[instance].VolatilityWarning
        /\ result.MarketMomentum = soloResult[instance].MarketMomentum
        /\ result.OnChainStatus = soloResult[instance].OnChainStatus

C13_ReportFailureIsIsolated ==
    (CycleRan /\ probe.triggered) =>
        /\ (result.OnChainStatus = "TX_FAILED") <=> probe.reportErr
        /\ (result.OnChainStatus = "TX_SENT_TO_ARBITRUM") <=> ~probe.reportErr
        /\ probe.reportErr =>
              /\ result.SystemRiskScore = 100
              /\ result.VolatilityWarning = "CRITICAL_HALT"
              /\ result.MarketMomentum = "Critical"
              /\ previousGoldPrice = result.GoldPrice
              /\ previousMsftPrice = result.MsftPrice
              /\ probe.reports = 1

\* a halting cycle whose chain write failed, the baseline having moved on
C13_Witness ==
    /\ CycleRan /\ probe.triggered /\ probe.reportErr
    /\ result.OnChainStatus = "TX_FAILED"
    /\ probe.previousGold = Usd(180, 0)
    /\ previousGoldPrice = Usd(189, 1)

Aggregated == aggregation.computed /\ Len(aggregation.prices) > 0

CountBelow(prices, v) == Cardinality({i \in DOMAIN prices : prices[i] < v})

CountAtMost(prices, v) == Cardinality({i \in DOMAIN prices : prices[i] <= v})

\* the k-th smallest price of a list, by counting
OrderStatistic(prices, k) ==
    CHOOSE v \in {prices[i] : i \in DOMAIN prices} :
        CountBelow(prices, v) < k /\ k <= CountAtMost(prices, v)

C14_WitnessOdd ==
    /\ Aggregated
    /\ aggregation.prices = <<Usd(11, 0), Usd(9, 80), Usd(10, 20)>>
    /\ aggregation.consensus.MedianPrice = Usd(10, 20)

Permuted(prices, f) == [i \in DOMAIN prices |-> prices[f[i]]]

\* C15: computeConsensus returns the same median, variance percent and risk
\* score for every permutation of the observations it was given.
C15_OrderIsIrrelevant ==
    Aggregated =>
        \A f \in Permutations(DOMAIN aggregation.prices) :
            computeConsensus(Permuted(aggregation.prices, f), config)
                = aggregation.consensus

\* an unsorted list holding a price twice
C15_Witness ==
    /\ Aggregated
    /\ aggregation.prices = <<Usd(11, 0), Usd(9, 80), Usd(11, 0), Usd(10, 0)>>
    /\ aggregation.consensus.MedianPrice = Usd(10, 50)
    /\ aggregation.consensus.Variance > 0

\* the variances around each threshold of a configuration
VarianceGrid(cfg) ==
    LET thresholds == {cfg.MaxVariancePercent, cfg.HighVolatilityThreshold,
                       cfg.ExtremeVolatilityThreshold}
    IN  {0, 10000} \cup { v \in UNION { {t - 1, t, t + 1} : t \in thresholds } : v >= 0 }

C17_ZeroMeanIsGuarded ==
    (Aggregated /\ SumSeq(aggregation.prices) = 0)
        => aggregation.consensus.Variance = 0

\* C18: for the empty observation list computeConsensus returns the zero
\* result (median 0, variance 0, risk score 0), which has the variance and the
\* risk score of a single-price, perfectly stable asset.
C18_EmptyIsZero ==
    (aggregation.computed /\ aggregation.prices = <<>>) =>
        /\ aggregation.consensus = [MedianPrice |-> 0, Variance |-> 0, RiskScore |-> 0]
        /\ \A p \in ConsensusPrices \ {0} :
              LET stable == computeConsensus(<<p>>, config)
              IN  /\ stable.Variance = aggregation.consensus.Variance
                  /\ stable.RiskScore = aggregation.consensus.RiskScore

C18_Witness ==
    /\ aggregation.computed
    /\ aggregation.prices = <<>>
    /\ aggregation.consensus.MedianPrice = 0
    /\ aggregation.consensus.RiskScore = 0

\* C19: for a single price p > 0, median = mean = p, the variance percent is 0
\* and the risk score 0 (Normal), under every non-negative threshold
\* configuration.
C19_SingleObservation ==
    (Aggregated /\ Len(aggregation.prices) = 1 /\ aggregation.prices[1] > 0) =>
        /\ aggregation.consensus.MedianPrice = aggregation.prices[1]
        /\ SumSeq(aggregation.prices) \div Len(aggregation.prices) = aggregation.prices[1]
        /\ aggregation.consensus.Variance = 0
        /\ aggregation.consensus.RiskScore = 0

\* one price of $10.00 under thresholds that include 0 %
C19_Witness ==
    /\ Aggregated
    /\ aggregation.prices = <<Usd(10, 0)>>
    /\ config.MaxVariancePercent = 0
    /\ aggregation.consensus =
          [MedianPrice |-> Usd(10, 0), Variance |-> 0, RiskScore |-> 0]

RebalanceMined == tx.function = "rebalance"

\* the shift of the defensive allocation made by the last transaction
AppliedMovement ==
    Abs(vault.defensiveAllocationBPS - tx.before.defensiveAllocationBPS)

\* the shift the last rebalance call asked for
RequestedMovement ==
    Abs(_calculateAllocation(tx.riskScore, tx.suggestedAction).defensiveBPS
          - tx.before.defensiveAllocationBPS)

\* the last rebalance call passed every check that precedes the circuit breaker
PassedEarlierChecks ==
    /\ ~tx.before.paused
    /\ tx.sender = CreExecutor
    /\ tx.riskScore <= RiskScale
    /\ tx.updatedAt <= blockTimestamp
    /\ blockTimestamp - tx.updatedAt <= ORACLE_STALENESS_THRESHOLD

\* C20: a rebalance asking for a shift of the defensive allocation of more than
\* 2000 BPS reverts, so no successful rebalance shifts defensiveAllocationBPS
\* by more than 2000 BPS; a shift of exactly 2000 BPS is accepted.
C20_CircuitBreaker ==
    RebalanceMined =>
        /\ (tx.riskScore <= RiskScale /\ RequestedMovement > 2000)
              => (tx.error # "" /\ vault = tx.before)
        /\ (tx.error = "") => AppliedMovement <= 2000
        /\ (PassedEarlierChecks /\ RequestedMovement <= 2000)
              => /\ tx.error = ""
                 /\ AppliedMovement = RequestedMovement
        /\ (PassedEarlierChecks /\ RequestedMovement > 2000)
              => tx.error = "MovementTooLarge"

\* from 50 % defensive to 70 %: exactly 2000 BPS, accepted
C20_Witness ==
    /\ RebalanceMined
    /\ tx.error = ""
    /\ tx.before.defensiveAllocationBPS = 5000
    /\ vault.defensiveAllocationBPS = 7000
    /\ AppliedMovement = 2000

\* from 70 % defensive to 30 %: 4000 BPS, reverted by the circuit breaker
C20_WitnessReverted ==
    /\ RebalanceMined
    /\ tx.error = "MovementTooLarge"
    /\ tx.before.defensiveAllocationBPS = 7000
    /\ RequestedMovement = 4000
    /\ vault.defensiveAllocationBPS = 7000

\* seconds between the feed's last update and the block of the last transaction
OracleAge == blockTimestamp - tx.updatedAt

\* the last rebalance call passed every check but the one on the feed
PassedOtherChecks ==
    /\ ~tx.before.paused
    /\ tx.sender = CreExecutor
    /\ tx.riskScore <= RiskScale
    /\ RequestedMovement <= 2000

C21_WitnessStale ==
    /\ RebalanceMined
    /\ PassedOtherChecks
    /\ \/ OracleAge = 10801 /\ tx.error = "OracleStale"
       \/ OracleAge = -1 /\ tx.error = "Panic(0x11)"
    /\ vault = tx.before

\* the part of the storage that records rebalances
RebalanceState(v) ==
    <<v.latestRisk, v.lastRebalanceTime, v.totalRebalances,
      v.defensiveAllocationBPS, v.aggressiveAllocationBPS>>

TxMined == tx.function # ""

\* C22: latestRisk, lastRebalanceTime, totalRebalances and the two allocations
\* change only through a rebalance sent by a holder of CRE_EXECUTOR_ROLE while
\* the vault is not paused; the paused flag changes only through pause or
\* unpause sent by a holder of GUARDIAN_ROLE; a call from any other account
\* reverts and changes nothing.
C22_OnlyRoleHoldersChangeState ==
    TxMined =>
        /\ (RebalanceState(vault) # RebalanceState(tx.before))
              => /\ tx.function = "rebalance"
                 /\ tx.sender \in tx.before.roles.CRE_EXECUTOR_ROLE
                 /\ ~tx.before.paused
                 /\ tx.error = ""
        /\ (vault.paused # tx.before.paused)
              => /\ tx.function \in {"pause", "unpause"}
                 /\ tx.sender \in tx.before.roles.GUARDIAN_ROLE
                 /\ tx.error = ""
        /\ (tx.function = "rebalance" /\ tx.sender \notin tx.before.roles.CRE_EXECUTOR_ROLE)
              => (tx.error # "" /\ vault = tx.before)
        /\ (tx.function \in {"pause", "unpause"}
               /\ tx.sender \notin tx.before.roles.GUARDIAN_ROLE)
              => (tx.error # "" /\ vault = tx.before)
        /\ vault.roles = tx.before.roles

\* a rebalance that only lacks the role: sent by the guardian, refused
C22_Witness ==
    /\ RebalanceMined
    /\ tx.sender = Deployer
    /\ ~tx.before.paused
    /\ tx.riskScore <= RiskScale
    /\ tx.updatedAt = blockTimestamp
    /\ RequestedMovement <= 2000
    /\ tx.error = "AccessControl"
    /\ vault = tx.before

\* the executor trying to unpause a paused vault, refused
C22_WitnessPause ==
    /\ tx.function = "unpause"
    /\ tx.sender = CreExecutor
    /\ tx.before.paused
    /\ tx.error = "AccessControl"
    /\ vault.paused

\* the AI path could not deliver a score
AiUnavailable ==
    \/ agent.secretErr
    \/ agent.openAIEndpoint = ""
    \/ agent.sendErr
    \/ agent.statusCode >= 400

\* C23: calculateRisk always returns a score: whenever the secret cannot be
\* fetched, the endpoint is not configured, or the AI call errors or returns a
\* status >= 400, the method is FALLBACK_DETERMINISTIC and the risk is
\* (VIX / 20) * 100 capped at 100 and truncated; the score is within 0..100.
C23_FallbackAlwaysAnswers ==
    agent.ran =>
        /\ agent.score \in 0..100
        /\ agent.method \in {"AI_AGENT", "FALLBACK_DETERMINISTIC"}
        /\ AiUnavailable <=> (agent.method = "FALLBACK_DETERMINISTIC")
        /\ AiUnavailable =>
              \/ (agent.vix >= 2000 /\ agent.score = 100)
              \/ /\ agent.vix < 2000
                 /\ 20 * agent.score <= agent.vix
                 /\ agent.vix < 20 * (agent.score + 1)

\* the VIX of 22.5 with an AI call answered 500: 112.5 capped to 100
C23_Witness ==
    /\ agent.ran
    /\ ~agent.secretErr /\ agent.openAIEndpoint # "" /\ ~agent.sendErr
    /\ agent.statusCode = 500
    /\ agent.vix = 2250
    /\ agent.method = "FALLBACK_DETERMINISTIC"
    /\ agent.score = 100

\* the VIX of 19.99 without a secret: 99.95 truncated to 99
C23_WitnessTruncated ==
    /\ agent.ran /\ agent.secretErr
    /\ agent.vix = 1999
    /\ agent.score = 99

Min(a, b) == IF a < b THEN a ELSE b

\* the average of the two per-asset tier scores of the last cycle
TierAverage == (probe.goldRisk + probe.msftRisk) \div 2

MomentumBonus == IF probe.momentum = "Unstable" THEN 30 ELSE 0

CrossAboveHigh == result.CrossAssetVariance > config.HighVolatilityThreshold

C24_ScoreAsComputed ==
    (CycleRan /\ ~probe.triggered) =>
        LET b == IF CrossAboveHigh /\ TierAverage + MomentumBonus < 70 THEN 20 ELSE 0
        IN  result.SystemRiskScore = TierAverage + MomentumBonus + b

\* tier average 5.0, Unstable, variance above the high threshold: 8.0, the
\* bump being refused on 5.0 + 3.0
C24_BumpAfterBonus ==
    /\ CycleRan /\ ~probe.triggered
    /\ TierAverage = 50 /\ MomentumBonus = 30 /\ CrossAboveHigh
    /\ result.SystemRiskScore = 80

\* tier average 10.0 and Unstable: 13.0
C24_AboveTen ==
    /\ CycleRan /\ ~probe.triggered
    /\ TierAverage = 100 /\ MomentumBonus = 30
    /\ result.SystemRiskScore = 130

\* the move from price a to price b is larger than 5 % of a
Beyond(a, b) == 20 * Abs(b - a) > a

\* C25: after every cycle, triggered or not, the retained price is that
\* cycle's anchor price, so each check compares with the cycle immediately
\* before and only with it: a cycle triggers exactly when its own move is
\* beyond 5 %, and a sequence of moves of at most 5 % each never triggers,
\* whatever the cumulative drift.
C25_BaselineFollowsEveryCycle ==
    /\ Len(journal) = executionCount
    /\ \A k \in DOMAIN journal :
          /\ journal[k].retained = journal[k].goldPrice
          /\ (k = 1) => (journal[k].previousGold = 0 /\ ~journal[k].triggered)
          /\ (k > 1) =>
                /\ journal[k].previousGold = journal[k - 1].goldPrice
                /\ journal[k].triggered
                      <=> Beyond(journal[k - 1].goldPrice, journal[k].goldPrice)
    /\ (journal # <<>>) => previousGoldPrice = journal[Len(journal)].goldPrice

\* four cycles climbing 15.8 % in steps of at most 5 %, none of them halting
C25_Witness ==
    /\ Len(journal) = 4
    /\ journal[1].goldPrice = Usd(180, 0)
    /\ journal[2].goldPrice = Usd(189, 0)
    /\ journal[3].goldPrice = Usd(198, 45)
    /\ journal[4].goldPrice = Usd(208, 37)
    /\ Beyond(journal[1].goldPrice, journal[4].goldPrice)
    /\ \A k \in 1..4 : ~journal[k].triggered /\ journal[k].alert # "CRITICAL_HALT"
    /\ previousGoldPrice = Usd(208, 37)

\* a halting cycle moves the baseline too: the next cycle is compared with it
C25_WitnessAfterHalt ==
    /\ Len(journal) = 3
    /\ journal[2].triggered
    /\ journal[2].retained = journal[2].goldPrice
    /\ journal[3].previousGold = journal[2].goldPrice
    /\ ~journal[3].triggered
    /\ Beyond(journal[1].goldPrice, journal[3].goldPrice)

\* C26: a cycle that finds the retained gold price at 0 is a baseline cycle:
\* the guard does not trigger (no halt, no report), the guard step divides
\* by nothing (neither for the gold deviation nor for the logged MSFT
\* deviation), and the cycle's gold price becomes the retained price.
C26_ZeroBaselineIsGuarded ==
    (CycleRan /\ probe.previousGold = 0) =>
        /\ ~probe.triggered
        /\ result.VolatilityWarning # "CRITICAL_HALT"
        /\ result.OnChainStatus = "IDLE"
        /\ probe.reports = 0
        /\ probe.divisions = {}
        /\ previousGoldPrice = result.GoldPrice

\* a later cycle re-baselines after a cycle that left the retained price at 0
C26_Witness ==
    /\ executionCount >= 2
    /\ probe.previousGold = 0
    /\ result.GoldPrice = Usd(180, 0)
    /\ previousGoldPrice = Usd(180, 0)
    /\ ~probe.triggered

\* the first cycle of an instance is a baseline cycle
C26_WitnessFirst ==
    /\ executionCount = 1
    /\ probe.previousGold = 0
    /\ result.GoldPrice > 0
    /\ probe.divisions = {}

\* with a gold baseline and no MSFT baseline the logged MSFT deviation
\* divides by 0
C26_MsftDividesByZero ==
    CycleRan /\ probe.previousGold # 0 /\ \E d \in probe.divisions : d.byZero

\* the last three readings accelerate by more than 0.5 %
AccelerationDetected ==
    /\ Len(readings) >= 3
    /\ LET n == Len(readings)
       IN  (readings[n] - readings[n - 1]) - (readings[n - 1] - readings[n - 2]) > 50

\* C27: the cycle's marketMomentum is Critical iff the guard triggered in the
\* cycle; otherwise it is Unstable iff the momentum engine detected an
\* acceleration above the threshold in the cycle; otherwise it is Stable.  A
\* triggered guard overrides an Unstable verdict of the same cycle.
C27_MomentumVerdict ==
    CycleRan =>
        /\ probe.triggered <=> MovedBeyondLimit
        /\ (result.MarketMomentum = "Critical") <=> MovedBeyondLimit
        /\ ~MovedBeyondLimit =>
              /\ (result.MarketMomentum = "Unstable") <=> AccelerationDetected
              /\ ~AccelerationDetected => result.MarketMomentum = "Stable"
        /\ probe.momentum = (IF AccelerationDetected THEN "Unstable" ELSE "Stable")

\* the guard triggers in a cycle whose momentum verdict was Unstable
C27_Witness ==
    /\ CycleRan
    /\ MovedBeyondLimit
    /\ AccelerationDetected
    /\ probe.momentum = "Unstable"
    /\ result.MarketMomentum = "Critical"

C27_WitnessUnstable ==
    CycleRan /\ ~MovedBeyondLimit /\ AccelerationDetected
        /\ result.MarketMomentum = "Unstable"

C27_WitnessStable ==
    executionCount = 3 /\ ~MovedBeyondLimit /\ ~AccelerationDetected
        /\ result.MarketMomentum = "Stable"

\* C28: the cycle's alert is CRITICAL_HALT iff the guard triggered in the
\* cycle; when it did not, the alert is the high-volatility alert iff
\* crossAssetVariance > highVolatilityThreshold (strictly), and Normal
\* otherwise.  High volatility never replaces CRITICAL_HALT.
C28_AlertVerdict ==
    CycleRan =>
        /\ (result.VolatilityWarning = "CRITICAL_HALT") <=> MovedBeyondLimit
        /\ ~MovedBeyondLimit =>
              /\ (result.VolatilityWarning = "High Volatility") <=> CrossAboveHigh
              /\ ~CrossAboveHigh => result.VolatilityWarning = "Normal"

\* a halt in a cycle whose reading is above the high-volatility threshold
C28_Witness ==
    /\ CycleRan
    /\ MovedBeyondLimit
    /\ CrossAboveHigh
    /\ result.VolatilityWarning = "CRITICAL_HALT"

\* a reading exactly at the threshold raises no alert
C28_WitnessAtThreshold ==
    /\ CycleRan
    /\ ~MovedBeyondLimit
    /\ result.CrossAssetVariance = config.HighVolatilityThreshold
    /\ result.VolatilityWarning = "Normal"

C28_WitnessHighVolatility ==
    CycleRan /\ ~MovedBeyondLimit /\ CrossAboveHigh
        /\ result.VolatilityWarning = "High Volatility"

\* C29: the halt is not latched: in the cycle immediately after a cycle that
\* ended in CRITICAL_HALT, if the anchor price is within 5 % of the crashed
\* price, the alert is not CRITICAL_HALT, the score is not forced to 10.0 and
\* no actuation report is generated; no reset step lies between the two.
C29_HaltIsNotLatched ==
    \A k \in DOMAIN journal :
        ( /\ k > 1
          /\ journal[k - 1].alert = "CRITICAL_HALT"
          /\ ~Beyond(journal[k - 1].goldPrice, journal[k].goldPrice) )
        => /\ journal[k].alert # "CRITICAL_HALT"
           /\ ~journal[k].triggered
           /\ journal[k].score < HaltScore
           /\ journal[k].reports = 0

\* $208.37 crashes to $180.00 (halt); the next cycle at $189.00, exactly 5 %
\* above the crashed price and 9.3 % below the price before the crash, runs
\* normally
C29_Witness ==
    /\ Len(journal) = 3
    /\ journal[1].goldPrice = Usd(208, 37)
    /\ journal[2].goldPrice = Usd(180, 0)
    /\ journal[2].alert = "CRITICAL_HALT"
    /\ journal[2].reports = 1
    /\ journal[3].goldPrice = Usd(189, 0)
    /\ journal[3].alert = "Normal"
    /\ journal[3].reports = 0
    /\ result.SystemRiskScore = 0
    /\ result.OnChainStatus = "IDLE"

\* the crashed price repeated in the next cycle, as in the stages after the
\* flash crash of the mock scenario
C29_WitnessRepeated ==
    /\ Len(journal) >= 2
    /\ journal[Len(journal) - 1].alert = "CRITICAL_HALT"
    /\ journal[Len(journal)].goldPrice = journal[Len(journal) - 1].goldPrice
    /\ result.VolatilityWarning = "Normal"
    /\ probe.reports = 0

\* the package-level state is as the runtime initialised it
RetainedIsFresh ==
    /\ Retained = FreshState
    /\ executionCount = 0

\* C30: computeConsensus has no side effects: after the call the caller's
\* observation sequence has the contents and the order it had before, and the
\* retained state is unchanged.
C30_NoSideEffects ==
    Aggregated =>
        /\ aggregation.callerPrices = aggregation.prices
        /\ RetainedIsFresh

\* what the call does leave alone: the retained state, and the observations
\* as a collection (the caller's slice holds the same prices, in ascending
\* order)
C30_ContentsKept ==
    Aggregated =>
        /\ RetainedIsFresh
        /\ Len(aggregation.callerPrices) = Len(aggregation.prices)
        /\ \A p \in ConsensusPrices :
              Cardinality({i \in DOMAIN aggregation.callerPrices :
                              aggregation.callerPrices[i] = p})
                = Cardinality({i \in DOMAIN aggregation.prices :
                                  aggregation.prices[i] = p})
        /\ \A i \in 1..(Len(aggregation.callerPrices) - 1) :
              aggregation.callerPrices[i] <= aggregation.callerPrices[i + 1]

\* the caller's two observations come back in the other order
C30_Reordered ==
    /\ Aggregated
    /\ aggregation.prices = <<Usd(11, 0), Usd(9, 80)>>
    /\ aggregation.callerPrices = <<Usd(9, 80), Usd(11, 0)>>

\* the last transaction was a rebalance stopped by the circuit breaker
BreakerRejected == RebalanceMined /\ tx.error = "MovementTooLarge"

\* C31: when rebalance is rejected by the circuit breaker (movement > 2000
\* BPS), the vault is paused as a result: after that transaction paused() is
\* true, so that later deposit, withdraw and rebalance calls are refused
\* until a guardian unpauses.
C31_BreakerPausesVault ==
    BreakerRejected => vault.paused

\* what the rejected transaction leaves behind: the storage it found, with
\* the vault still open
C31_BreakerLeavesVaultOpen ==
    BreakerRejected => (vault = tx.before /\ ~vault.paused)

C31_BreakerReached ==
    /\ BreakerRejected
    /\ tx.sender = CreExecutor
    /\ RequestedMovement = 4000
    /\ ~vault.paused

\* C32: while the vault is paused, deposit, mint, withdraw, redeem and
\* rebalance all revert and leave the vault state unchanged.
C32_PausedBlocksEverything ==
    (tx.function \in {"deposit", "mint", "withdraw", "redeem", "rebalance"}
        /\ tx.before.paused)
        => (tx.error # "" /\ vault = tx.before)

\* the part of the claim the contract keeps: the two overridden entry points
\* and rebalance are refused while paused
C32_PausedBlocksOverridden ==
    (tx.function \in {"deposit", "withdraw", "rebalance"} /\ tx.before.paused)
        => (tx.error = "Pausable: paused" /\ vault = tx.before)

\* shares minted into a paused vault
C32_MintWhilePaused ==
    /\ tx.function = "mint"
    /\ tx.before.paused
    /\ tx.error = ""
    /\ vault.totalAssets = tx.before.totalAssets + Lot

\* assets taken out of a paused vault
C32_RedeemWhilePaused ==
    /\ tx.function = "redeem"
    /\ tx.before.paused
    /\ tx.error = ""
    /\ vault.totalAssets = tx.before.totalAssets - Lot

C32_DepositRefused ==
    tx.function = "deposit" /\ tx.before.paused /\ tx.error = "Pausable: paused"

\* C33: in every reachable vault state defensiveAllocationBPS +
\* aggressiveAllocationBPS = 10000 and defensiveAllocationBPS is within
\* [3000, 9000]; totalRebalances grows by exactly 1 on each successful
\* rebalance and is unchanged by every reverted call, a riskScore above 1e18
\* reverting with InvalidRiskScore.
C33_AllocationInvariant ==
    /\ vault.defensiveAllocationBPS + vault.aggressiveAllocationBPS = 10000
    /\ vault.defensiveAllocationBPS >= 3000
    /\ vault.defensiveAllocationBPS <= 9000
    /\ TxMined =>
          /\ (RebalanceMined /\ tx.error = "")
                => vault.totalRebalances = tx.before.totalRebalances + 1
          /\ (tx.error # "")
                => vault.totalRebalances = tx.before.totalRebalances
          /\ (RebalanceMined /\ tx.riskScore > RiskScale)
                => /\ tx.error # ""
                   /\ vault = tx.before
                   /\ (~tx.before.paused /\ tx.sender = CreExecutor)
                         => tx.error = "InvalidRiskScore"

\* the vault driven to its most defensive allocation, in two rebalances
C33_Witness ==
    /\ RebalanceMined
    /\ tx.error = ""
    /\ vault.defensiveAllocationBPS = 9000
    /\ vault.aggressiveAllocationBPS = 1000
    /\ vault.totalRebalances = 2

\* the least defensive allocation
C33_WitnessAggressive ==
    /\ RebalanceMined
    /\ tx.error = ""
    /\ vault.defensiveAllocationBPS = 3000
    /\ vault.totalRebalances = tx.before.totalRebalances + 1

\* a risk score of 1e18 plus one unit, refused
C33_WitnessInvalidRiskScore ==
    /\ RebalanceMined
    /\ tx.riskScore = RiskScale + 1
    /\ tx.error = "InvalidRiskScore"
    /\ vault.totalRebalances = tx.before.totalRebalances

ShieldCalled == shieldTx.calls >= 1

\* C34: emergencyHalt is accepted only from the oracle address; it sets
\* isProtocolActive to false iff riskScore > 80 (100, what the engine sends
\* for a score of 10.0, halts; 80 does not); once isProtocolActive is false it
\* never becomes true again, lastRiskScore no longer changes, and every later
\* emergencyHalt reverts with ProtocolAlreadyShielded.
C34_ShieldLatches ==
    ShieldCalled =>
        /\ (shieldTx.sender # AuraOracle)
              => (shieldTx.error = "Unauthorized" /\ shield = shieldTx.before)
        /\ (shieldTx.error = "") => shieldTx.sender = AuraOracle
        /\ (shieldTx.sender = AuraOracle /\ shieldTx.before.isProtocolActive)
              => /\ shieldTx.error = ""
                 /\ shield.lastRiskScore = shieldTx.riskScore
                 /\ ~shield.isProtocolActive <=> shieldTx.riskScore > 80
                 /\ shieldTx.riskScore = 100 => ~shield.isProtocolActive
                 /\ shieldTx.riskScore = 80 => shield.isProtocolActive
        /\ ~shieldTx.before.isProtocolActive
              => /\ ~shield.isProtocolActive
                 /\ shield.lastRiskScore = shieldTx.before.lastRiskScore
                 /\ shield = shieldTx.before
                 /\ shieldTx.sender = AuraOracle
                       => shieldTx.error = "ProtocolAlreadyShielded"

\* the engine's score of 10.0 halts the protocol
C34_Witness ==
    /\ ShieldCalled
    /\ shieldTx.sender = AuraOracle
    /\ shieldTx.riskScore = riskScoreScaled(HaltScore)
    /\ shieldTx.before.isProtocolActive
    /\ ~shield.isProtocolActive
    /\ shield.lastRiskScore = 100

\* a score of exactly 80 is recorded and does not halt
C34_WitnessAtThreshold ==
    /\ ShieldCalled
    /\ shieldTx.sender = AuraOracle
    /\ shieldTx.riskScore = 80
    /\ shieldTx.error = ""
    /\ shield.isProtocolActive
    /\ shield.lastRiskScore = 80

\* the oracle calling again after the halt
C34_WitnessShielded ==
    /\ shieldTx.sender = AuraOracle
    /\ ~shieldTx.before.isProtocolActive
    /\ shieldTx.error = "ProtocolAlreadyShielded"
    /\ shieldTx.riskScore # shield.lastRiskScore

\* the counter, the cycles and the stack of the invocation in progress
InvocationAccounts ==
    (invocation.triggers >= 1) =>
        /\ executionCount = invocation.startCount + invocation.cycles
        /\ invocation.cycles >= 1
        /\ invocation.cycles <= ScenarioLength
        /\ invocation.running => invocation.depth = invocation.cycles

\* what a returned invocation has done
InvocationReturns ==
    invocation.returned =>
        /\ ~invocation.running
        /\ invocation.value = result
        /\ (invocation.startCount = 0)
              => (invocation.cycles = 3 /\ executionCount = 3)
        /\ (invocation.startCount >= 3) => invocation.cycles = 1

\* the counter moves by one per cycle and never backwards
CounterSteps ==
    [][ \/ executionCount' = executionCount
        \/ (executionCount' = executionCount + 1
               /\ invocation'.cycles + invocation'.startCount = executionCount') ]_vars

\* C35: every trigger invocation of the three-stage handler terminates:
\* started with executionCount = 0 it runs exactly three cycles, calling
\* itself, and returns the third cycle's result; started with executionCount
\* >= 3 it runs exactly one cycle; executionCount grows by exactly 1 per cycle
\* and never decreases.
C35_InvocationTerminates ==
    /\ [](InvocationAccounts /\ InvocationReturns)
    /\ CounterSteps
    /\ (invocation.running ~> invocation.returned)

\* the first invocation: three cycles, the flash-crash result returned
C35_Witness ==
    /\ invocation.returned
    /\ invocation.triggers = 1
    /\ invocation.startCount = 0
    /\ invocation.cycles = 3
    /\ executionCount = 3
    /\ invocation.value.VolatilityWarning = "CRITICAL_HALT"
    /\ invocation.value.GoldPrice = Usd(180, 0)

\* a later invocation: one cycle
C35_WitnessLater ==
    /\ invocation.returned
    /\ invocation.triggers = 2
    /\ invocation.startCount = 3
    /\ invocation.cycles = 1
    /\ executionCount = 4

\* the score the run's inputs lead to: 45 from the AI path, else the capped
\* VIX model
ExpectedRisk ==
    IF ~strategy.secretErr /\ strategy.statusCode < 400 THEN 45
    ELSE Min(100, (5 * strategy.vix) \div 100)

\* the run read the state and the risk moved by more than 5
RiskMoved == Abs(ExpectedRisk - strategy.oldRisk) > 5

\* C36: executeStrategy requests a chain write iff |newRisk - oldRisk| > 5 (a
\* difference of exactly 5 holds); ActionTaken is true only when the report
\* was generated successfully, at most one report is requested per run, and
\* a report failure is returned as an error with no result.
C36_WriteOnlyWhenRiskMoved ==
    strategy.ran =>
        /\ strategy.reports <= 1
        /\ strategy.hasResult <=> strategy.err = ""
        /\ strategy.fetchErr => (strategy.reports = 0 /\ ~strategy.hasResult)
        /\ ~strategy.fetchErr =>
              /\ (strategy.reports = 1) <=> RiskMoved
              /\ (RiskMoved /\ strategy.reportErr)
                    => (strategy.err # "" /\ ~strategy.hasResult)
              /\ (RiskMoved /\ ~strategy.reportErr)
                    => (strategy.hasResult /\ strategy.result.ActionTaken)
              /\ ~RiskMoved
                    => (strategy.hasResult /\ ~strategy.result.ActionTaken)
        /\ strategy.result.ActionTaken
              => (strategy.reports = 1 /\ ~strategy.reportErr)
        /\ strategy.hasResult
              => (strategy.result.NewRisk = ExpectedRisk
                    /\ strategy.result.OldRisk = strategy.oldRisk)

\* the repository's own inputs: risk 50 on chain, 45 from the AI: a
\* difference of exactly 5, no write
C36_Witness ==
    /\ strategy.ran
    /\ strategy.oldRisk = 50
    /\ strategy.result.NewRisk = 45
    /\ strategy.reports = 0
    /\ strategy.hasResult
    /\ ~strategy.result.ActionTaken

\* the fallback's 100 against 50 on chain: one write, action taken
C36_WitnessWrite ==
    /\ strategy.ran
    /\ strategy.oldRisk = 50
    /\ strategy.vix = 2250
    /\ strategy.result.NewRisk = 100
    /\ strategy.reports = 1
    /\ strategy.result.ActionTaken

\* the write fails: an error and no result
C36_WitnessWriteFailed ==
    /\ strategy.ran
    /\ strategy.reports = 1
    /\ strategy.reportErr
    /\ strategy.err = "report"
    /\ ~strategy.hasResult

\* the last rebalance was less than MinRebalanceDelay seconds before the
\* agent's clock time, or after it
CoolingActive == cron.currentTime - cron.lastRebalanceTime < cron.cfg.MinRebalanceDelay

\* C37: onCronTrigger returns SKIPPED, without consulting the AI agent or
\* generating a report, whenever the last rebalance was less than
\* MinRebalanceDelay seconds ago, for every LastRebalanceTime, one later than
\* the current time included.
C37_CoolingAlwaysSkips ==
    (cron.ran /\ ~cron.readErr /\ CoolingActive)
        => /\ cron.outcome.status = "SKIPPED"
           /\ ~cron.outcome.consulted
           /\ cron.outcome.reports = 0

\* the same for a last rebalance that is not after the agent's clock
C37_CoolingSkipsInThePast ==
    (cron.ran /\ ~cron.readErr /\ CoolingActive
        /\ cron.lastRebalanceTime <= cron.currentTime)
        => /\ cron.outcome.status = "SKIPPED"
           /\ ~cron.outcome.consulted
           /\ cron.outcome.reports = 0

\* a rebalance executed one second before the vault's last one
C37_ExecutedBeforeLastRebalance ==
    /\ cron.ran
    /\ cron.lastRebalanceTime = cron.currentTime + 1
    /\ cron.outcome.status = "EXECUTED"
    /\ cron.outcome.consulted
    /\ cron.outcome.reports = 1

C37_SkippedReached ==
    /\ cron.ran
    /\ cron.lastRebalanceTime = cron.currentTime - cron.cfg.MinRebalanceDelay + 1
    /\ cron.outcome.status = "SKIPPED"

\* the run got as far as the decision: state and VIX read, cooling period
\* over, AI consulted
ReachedDecision ==
    ~cron.readErr /\ ~CoolingActive /\ ~cron.vixErr /\ ~cron.aiErr

C38_WitnessAtThreshold ==
    /\ cron.ran
    /\ cron.lastRebalanceTime <= cron.currentTime
    /\ cron.riskScore = cron.cfg.RiskThreshold
    /\ cron.outcome.status = "NO_ACTION"
    /\ cron.outcome.reports = 0

\* the chain write fails: an error, no status
C38_WitnessWriteFailed ==
    /\ cron.ran
    /\ cron.lastRebalanceTime <= cron.currentTime
    /\ cron.outcome.reports = 1
    /\ cron.reportErr
    /\ cron.outcome.err = "chain write failed"
    /\ cron.outcome.status = ""

====
